---- MODULE Spec2Model ----
(***************************************************************************)
(* flatten_repo.pyproject_sync: synchronisation of the dependency tables   *)
(* of pyproject.toml from requirements files.                              *)
(*                                                                         *)
(* Text is modelled as a sequence of one-character strings, so that the    *)
(* regular expression of to_minimum_pin, str.strip and str.startswith are  *)
(* computed on the characters as the code computes them.                   *)
(***************************************************************************)
EXTENDS Integers, Sequences, FiniteSets

\* ------------------------------------------------------------------ bounds

\* Longest line of the exhaustive part of the inputs of to_minimum_pin.
MaxLen == 3
\* Longest list handed to apply_pin_strategy.
MaxItems == 2
\* Most --group values on one command line.
MaxOverrides == 1
\* Longest text handed to chunk_content, in characters.
MaxText == 5
\* Largest chunk_chars handed to chunk_content.
MaxChunk == 4

\* ------------------------------------------------------------- characters

\* Representatives of [A-Za-z0-9]: the letters and digits the model's lines use.
AlnumChars == {"a", "b", "c", "d", "e", "o", "p", "r", "s", "v", "1"}
\* [A-Za-z0-9_.-], the name class of _EXACT_PIN_PATTERN.
NameChars == AlnumChars \cup {"_", ".", "-"}
\* [A-Za-z0-9_,.-], the extras class of _EXACT_PIN_PATTERN.
ExtrasChars == NameChars \cup {","}
\* \s of the pattern and the characters str.strip removes.
WsChars == {" "}
\* Every character a modelled line can hold.
Alphabet == ExtrasChars \cup WsChars \cup {"[", "]", "=", ">", "<", "~", "!", ";", "@", "/", "#"}
\* [^;\s], the version class of _EXACT_PIN_PATTERN.
VersionChars == Alphabet \ ({";"} \cup WsChars)

\* ---------------------------------------------------------- str operations

\* s[i:j] of Python, 1-based and inclusive: the characters i..j of s.
Slice(s, i, j) == [k \in 1..(IF j >= i THEN j - i + 1 ELSE 0) |-> s[i + k - 1]]

\* The first index >= i of s whose character is outside class C (Len(s)+1 when
\* there is none): the end of a greedy run [C]* starting at i.
RECURSIVE Span(_, _, _)
Span(s, i, C) == IF i <= Len(s) /\ s[i] \in C THEN Span(s, i + 1, C) ELSE i

\* The last index <= j of s whose character is outside class C (0 when none).
RECURSIVE SpanBack(_, _, _)
SpanBack(s, j, C) == IF j >= 1 /\ s[j] \in C THEN SpanBack(s, j - 1, C) ELSE j

\* str.strip(): leading and trailing whitespace removed.
strip(s) == Slice(s, Span(s, 1, WsChars), SpanBack(s, Len(s), WsChars))

\* str.startswith(p).
startswith(s, p) == Len(s) >= Len(p) /\ Slice(s, 1, Len(p)) = p

\* --------------------------------------------------------- to_minimum_pin

\* _EXACT_PIN_PATTERN.match(s), group by group. Every quantifier of the
\* pattern is followed by a character outside its class, so the greedy run is
\* the only run that can match and the backtracking search of re has a single
\* candidate: each operator below takes the end of the run before it.
NoMatch == [ok |-> FALSE, name |-> <<>>, version |-> <<>>, marker |-> <<>>]
Match(name, version, marker) ==
    [ok |-> TRUE, name |-> name, version |-> version, marker |-> marker]

\* (?P<marker>\s*;.*)?$ from index v, m being the end of the whitespace after
\* v: the line ends at v, or a ';' follows the whitespace and the marker is
\* the rest of the line.
pattern_marker(s, e, w2, v, m) ==
    IF v = Len(s) + 1
    THEN Match(Slice(s, 1, e - 1), Slice(s, w2, v - 1), <<>>)
    ELSE IF m <= Len(s) /\ s[m] = ";"
    THEN Match(Slice(s, 1, e - 1), Slice(s, w2, v - 1), Slice(s, v, Len(s)))
    ELSE NoMatch

\* (?P<version>[^;\s]+) from index w2, v being the end of its greedy run.
pattern_version(s, e, w2, v) ==
    IF v = w2 THEN NoMatch ELSE pattern_marker(s, e, w2, v, Span(s, v, WsChars))

\* == and \s* from index w1, the end of the whitespace after the name.
pattern_operator(s, e, w1) ==
    IF ~(w1 + 1 <= Len(s) /\ s[w1] = "=" /\ s[w1 + 1] = "=") THEN NoMatch
    ELSE pattern_version(s, e, Span(s, w1 + 2, WsChars),
                         Span(s, Span(s, w1 + 2, WsChars), VersionChars))

\* (?:\[[A-Za-z0-9_,.-]+\])? from index n, x being the end of the run of
\* extras characters after the '['.
pattern_extras(s, n, x) ==
    IF x > n + 1 /\ x <= Len(s) /\ s[x] = "]"
    THEN pattern_operator(s, x + 1, Span(s, x + 1, WsChars))
    ELSE NoMatch

\* ^[A-Za-z0-9_.-]+, n being the end of the greedy run of name characters.
pattern_name(s, n) ==
    IF n = 1 THEN NoMatch
    ELSE IF n <= Len(s) /\ s[n] = "["
    THEN pattern_extras(s, n, Span(s, n + 1, ExtrasChars))
    ELSE pattern_operator(s, n, Span(s, n, WsChars))

EXACT_PIN_PATTERN(s) == pattern_name(s, Span(s, 1, NameChars))

\* f"{name}>={version}{marker}" of a match, the requirement itself otherwise.
minimum_pin_of(requirement, matched) ==
    IF ~matched.ok THEN requirement
    ELSE matched.name \o <<">", "=">> \o matched.version \o matched.marker

\* The same without the marker group.
minimum_pin_no_marker_of(requirement, matched) ==
    IF ~matched.ok THEN requirement
    ELSE matched.name \o <<">", "=">> \o matched.version

\* A version of to_minimum_pin that forgets the marker group.
to_minimum_pin_no_marker(requirement) ==
    minimum_pin_no_marker_of(requirement, EXACT_PIN_PATTERN(strip(requirement)))

\* The index of the first "==" of s at or after i, or 0.
RECURSIVE FindEqEq(_, _)
FindEqEq(s, i) ==
    IF i + 1 > Len(s) THEN 0
    ELSE IF s[i] = "=" /\ s[i + 1] = "=" THEN i ELSE FindEqEq(s, i + 1)

replace_at(requirement, i) ==
    IF i = 0 THEN requirement
    ELSE Slice(requirement, 1, i - 1) \o <<">", "=">>
         \o Slice(requirement, i + 2, Len(requirement))

\* A version of to_minimum_pin written as requirement.replace("==", ">=", 1).
to_minimum_pin_replace(requirement) == replace_at(requirement, FindEqEq(requirement, 1))

to_minimum_pin(requirement) ==
    minimum_pin_of(requirement, EXACT_PIN_PATTERN(strip(requirement)))

\* A version of apply_pin_strategy that converts under both strategies.
apply_pin_strategy_always(items, strategy) ==
    [k \in 1..Len(items) |-> to_minimum_pin(items[k])]

apply_pin_strategy(items, strategy) ==
    IF strategy = "exact" THEN items
    ELSE [k \in 1..Len(items) |-> to_minimum_pin(items[k])]

\* ------------------------------------------------------------------ values

\* The lines of the requirement files of the model.
L_pin == <<"a", "=", "=", "1">>
L_pin_b == <<"b", "=", "=", "1">>
L_pin_padded == <<" ", "a", "=", "=", "1", " ">>
L_arbitrary == <<"a", "=", "=", "=", "1">>
L_name_b == <<"b">>
L_name_c == <<"c">>
L_name_d == <<"d">>
L_invalid == <<"@">>
L_include == <<"-", "r", " ", "a">>
L_comment == <<"#", "a">>
L_blank == <<>>

\* Group names, as text.
DEV == <<"d", "e", "v">>
OPS == <<"o", "p", "s">>
\* The key of the runtime list among the requirement files (no group has an
\* empty name: parse_group_overrides refuses it).
RUNTIME == <<>>

\* DEFAULT_GROUP_IN, as an ordered dict: a sequence of <<name, path>>.
DEFAULT_GROUP_IN == << <<DEV, <<"d">> >> >>
\* GROUP_WHITELIST = frozenset(DEFAULT_GROUP_IN).
GROUP_WHITELIST == {DEFAULT_GROUP_IN[k][1] : k \in 1..Len(DEFAULT_GROUP_IN)}

\* --group values: NAME=PATH, and one without '='.
G_ops == <<"o", "p", "s", "=", "p">>
G_malformed == <<"o", "p", "s">>

\* ------------------------------------------------------------ ordered dict

RECURSIVE DictIndex(_, _, _)
DictIndex(d, k, i) ==
    IF i > Len(d) THEN 0 ELSE IF d[i][1] = k THEN i ELSE DictIndex(d, k, i + 1)

\* d[k] = v of a Python dict: a present key keeps its place, a new one goes last.
DictSet(d, k, v) ==
    LET i == DictIndex(d, k, 1) IN
    IF i = 0 THEN Append(d, <<k, v>>) ELSE [d EXCEPT ![i] = <<k, v>>]

DictKeys(d) == [i \in 1..Len(d) |-> d[i][1]]

DictGet(d, k) == d[DictIndex(d, k, 1)][2]

Range(s) == {s[i] : i \in 1..Len(s)}

\* -------------------------------------------------------------- errors

NoError == [kind |-> "none", source |-> <<>>, detail |-> <<>>]
Error(kind, source, detail) == [kind |-> kind, source |-> source, detail |-> detail]

\* ------------------------------------------------------- resolve_paths

\* The index of the first occurrence of ch in s at or after i, or 0.
RECURSIVE IndexOf(_, _, _)
IndexOf(s, ch, i) ==
    IF i > Len(s) THEN 0 ELSE IF s[i] = ch THEN i ELSE IndexOf(s, ch, i + 1)

\* A version of parse_group_overrides that splits at the last '='.
RECURSIVE LastIndexOf(_, _, _)
LastIndexOf(s, ch, i) ==
    IF i < 1 THEN 0 ELSE IF s[i] = ch THEN i ELSE LastIndexOf(s, ch, i - 1)
RECURSIVE parse_group_overrides_rsplit_from(_, _, _)
parse_group_overrides_rsplit_from(values, i, out) ==
    IF i > Len(values) THEN [ok |-> TRUE, out |-> out]
    ELSE LET value == values[i]
             eq == LastIndexOf(value, "=", Len(value))
             name == strip(Slice(value, 1, eq - 1))
             path == strip(Slice(value, eq + 1, Len(value)))
         IN IF eq = 0 \/ name = <<>> \/ path = <<>>
            THEN [ok |-> FALSE, out |-> value]
            ELSE parse_group_overrides_rsplit_from(values, i + 1, DictSet(out, name, path))
parse_group_overrides_rsplit(values) == parse_group_overrides_rsplit_from(values, 1, <<>>)

\* parse_group_overrides, from value i on, out being the dict built so far.
RECURSIVE parse_group_overrides_from(_, _, _)
parse_group_overrides_from(values, i, out) ==
    IF i > Len(values) THEN [ok |-> TRUE, out |-> out]
    ELSE LET value == values[i]
             eq == IndexOf(value, "=", 1)
             name == strip(Slice(value, 1, eq - 1))
             path == strip(Slice(value, eq + 1, Len(value)))
         IN IF eq = 0 \/ name = <<>> \/ path = <<>>
            THEN [ok |-> FALSE, out |-> value]
            ELSE parse_group_overrides_from(values, i + 1, DictSet(out, name, path))

parse_group_overrides(values) == parse_group_overrides_from(values, 1, <<>>)

\* dict.update(other).
RECURSIVE DictUpdate(_, _, _)
DictUpdate(d, other, i) ==
    IF i > Len(other) THEN d
    ELSE DictUpdate(DictSet(d, other[i][1], other[i][2]), other, i + 1)

\* to_abs(project_root, maybe_rel): the path itself when it is absolute, the
\* path under the project root otherwise.
to_abs(maybe_rel) ==
    [under_root |-> ~(maybe_rel # <<>> /\ maybe_rel[1] = "/"), path |-> maybe_rel]

\* DEFAULT_GROUP_TXT, as an ordered dict.
DEFAULT_GROUP_TXT ==
    << <<DEV, <<"r", "e", "q", "u", "i", "r", "e", "m", "e", "n", "t", "s", "-",
                "d", "e", "v", ".", "t", "x", "t">> >> >>

\* DEFAULT_GROUP_TXT.get(name, f"requirements-{name}.txt").
group_txt_name(name) ==
    IF DictIndex(DEFAULT_GROUP_TXT, name, 1) # 0 THEN DictGet(DEFAULT_GROUP_TXT, name)
    ELSE <<"r", "e", "q", "u", "i", "r", "e", "m", "e", "n", "t", "s", "-">> \o name
         \o <<".", "t", "x", "t">>

\* group_in_paths of resolve_paths.
group_in_paths(group_in_raw) ==
    [k \in 1..Len(group_in_raw) |-> <<group_in_raw[k][1], to_abs(group_in_raw[k][2])>>]

\* A version of group_txt_paths that takes the path of the override.
group_txt_paths_of_override(group_in_raw) == group_in_paths(group_in_raw)

\* group_txt_paths of resolve_paths.
group_txt_paths(group_in_raw) ==
    [k \in 1..Len(group_in_raw) |->
        <<group_in_raw[k][1], to_abs(group_txt_name(group_in_raw[k][1]))>>]

\* The names check_group_whitelist finds outside the whitelist.
\* A version that finds none:
unknown_groups_none(group_names) == {}

unknown_groups(group_names) == Range(group_names) \ GROUP_WHITELIST

\* ---------------------------------------------------- read_requirements_file

\* A file: absent, or its lines (str.splitlines of its text).
Absent == [exists |-> FALSE, lines |-> <<>>]
File(lines) == [exists |-> TRUE, lines |-> lines]

\* The prefixes read_requirements_file refuses as directives.
DIRECTIVE_PREFIXES == {
    <<"-", "r", " ">>,
    <<"-", "-", "r", "e", "q", "u", "i", "r", "e", "m", "e", "n", "t">>,
    <<"-", "c", " ">>,
    <<"-", "-", "c", "o", "n", "s", "t", "r", "a", "i", "n", "t">>,
    <<"-", "e", " ">>,
    <<"-", "-", "e", "d", "i", "t", "a", "b", "l", "e">>}
\* The prefixes read_requirements_file refuses as index options.
INDEX_PREFIXES == {
    <<"-", "-", "i", "n", "d", "e", "x", "-", "u", "r", "l">>,
    <<"-", "-", "e", "x", "t", "r", "a", "-", "i", "n", "d", "e", "x", "-", "u", "r", "l">>,
    <<"-", "-", "t", "r", "u", "s", "t", "e", "d", "-", "h", "o", "s", "t">>,
    <<"-", "-", "f", "i", "n", "d", "-", "l", "i", "n", "k", "s">>}

is_directive(line) == \E p \in DIRECTIVE_PREFIXES : startswith(line, p)
is_index_option(line) == \E p \in INDEX_PREFIXES : startswith(line, p)

\* The loop of read_requirements_file from raw line i on, out being the list
\* built so far.
RECURSIVE read_lines(_, _, _, _)
read_lines(source, raws, i, out) ==
    IF i > Len(raws) THEN [err |-> NoError, out |-> out]
    ELSE LET line == strip(raws[i]) IN
         IF line = <<>> \/ startswith(line, <<"#">>)
         THEN read_lines(source, raws, i + 1, out)
         ELSE IF is_directive(line)
         THEN [err |-> Error("unsupported_directive", source, <<line>>), out |-> <<>>]
         ELSE IF is_index_option(line)
         THEN [err |-> Error("index_option", source, <<line>>), out |-> <<>>]
         ELSE read_lines(source, raws, i + 1, Append(out, line))

\* A version of read_requirements_file that keeps comment lines.
read_requirements_file_keep_comments(source, file) ==
    IF ~file.exists THEN [err |-> Error("missing_file", source, <<"txt">>), out |-> <<>>]
    ELSE [err |-> NoError, out |-> [k \in 1..Len(file.lines) |-> strip(file.lines[k])]]

\* A version of read_requirements_file that reads a missing file as empty.
read_requirements_file_lenient(source, file) ==
    read_lines(source, file.lines, 1, <<>>)

read_requirements_file(source, file) ==
    IF ~file.exists THEN [err |-> Error("missing_file", source, <<"txt">>), out |-> <<>>]
    ELSE read_lines(source, file.lines, 1, <<>>)

\* ------------------------------------------------------- parse_requirement

\* packaging.requirements.Requirement, on the lines of the model: a name,
\* optional extras, then nothing, '@ url' or comma-separated version clauses,
\* then an optional '; marker'. Marker text is not parsed: any text after the
\* ';' stands for a marker expression.
Invalid == [valid |-> FALSE, specifier |-> FALSE, url |-> FALSE]
Parsed(specifier, url) == [valid |-> TRUE, specifier |-> specifier, url |-> url]

\* The characters of a PEP 440 version, among the alphabet.
Pep440Chars == AlnumChars \cup {".", "_", "-"}

\* The end of a requirement from index t, the end of the whitespace after
\* its last token: nothing, or ';' and a marker.
requirement_tail(s, t) ==
    t > Len(s) \/ (s[t] = ";" /\ Span(s, t + 1, WsChars) <= Len(s))

\* The length of the comparison operator at index i of s, or 0.
operator_length(s, i) ==
    IF i + 2 <= Len(s) /\ s[i] = "=" /\ s[i + 1] = "=" /\ s[i + 2] = "=" THEN 3
    ELSE IF i + 1 <= Len(s) /\ s[i] \in {"=", ">", "<", "~", "!"} /\ s[i + 1] = "=" THEN 2
    ELSE IF i <= Len(s) /\ s[i] \in {"<", ">"} THEN 1
    ELSE 0

\* The end of the version that starts at v0 after an operator of length op:
\* any text after '===', a PEP 440 version otherwise.
version_end(s, op, v0) ==
    IF op = 3 THEN Span(s, v0, Alphabet \ (WsChars \cup {";", ","}))
    ELSE Span(s, v0, Pep440Chars)

\* The index after the version clauses starting at i, or 0 when one of them
\* is malformed.
RECURSIVE version_clauses(_, _)
clause_end(s, v0, v1, c) ==
    IF v1 = v0 THEN 0
    ELSE IF c <= Len(s) /\ s[c] = "," THEN version_clauses(s, Span(s, c + 1, WsChars))
    ELSE v1
clause_version(s, v0, v1) == clause_end(s, v0, v1, Span(s, v1, WsChars))
clause_operator(s, i, op) ==
    IF op = 0 THEN 0
    ELSE clause_version(s, Span(s, i + op, WsChars),
                        version_end(s, op, Span(s, i + op, WsChars)))
version_clauses(s, i) == clause_operator(s, i, operator_length(s, i))

requirement_url(s, u0, u1) ==
    IF u1 > u0 /\ requirement_tail(s, Span(s, u1, WsChars)) THEN Parsed(FALSE, TRUE)
    ELSE Invalid

requirement_versions(s, v) ==
    IF v # 0 /\ requirement_tail(s, Span(s, v, WsChars)) THEN Parsed(TRUE, FALSE)
    ELSE Invalid

\* What follows the name and extras, from index w (the end of the
\* whitespace after them).
requirement_rest(s, w) ==
    IF w > Len(s) THEN Parsed(FALSE, FALSE)
    ELSE IF s[w] = ";"
    THEN IF requirement_tail(s, w) THEN Parsed(FALSE, FALSE) ELSE Invalid
    ELSE IF s[w] = "@"
    THEN requirement_url(s, Span(s, w + 1, WsChars),
                         Span(s, Span(s, w + 1, WsChars), Alphabet \ WsChars))
    ELSE requirement_versions(s, version_clauses(s, w))

requirement_extras(s, x) ==
    IF x <= Len(s) /\ s[x] = "]" THEN requirement_rest(s, Span(s, x + 1, WsChars))
    ELSE Invalid

requirement_name(s, n) ==
    IF ~(n > 1 /\ s[1] \in AlnumChars /\ s[n - 1] \in AlnumChars) THEN Invalid
    ELSE IF n <= Len(s) /\ s[n] = "["
    THEN requirement_extras(s, Span(s, n + 1, ExtrasChars \cup WsChars))
    ELSE requirement_rest(s, Span(s, n, WsChars))

requirement_stripped(s) == requirement_name(s, Span(s, 1, NameChars))

Requirement(requirement) == requirement_stripped(strip(requirement))

\* parse_requirement raises exactly when Requirement does.
parse_requirement(requirement) == Requirement(requirement)

is_unpinned(req) == ~req.specifier /\ ~req.url

\* The index of the first item of items at or after i that does not parse, or 0.
RECURSIVE first_invalid(_, _)
first_invalid(items, i) ==
    IF i > Len(items) THEN 0
    ELSE IF ~parse_requirement(items[i]).valid THEN i ELSE first_invalid(items, i + 1)

invalid_at(items, source, i) ==
    IF i = 0 THEN NoError ELSE Error("invalid_requirement", source, <<items[i]>>)

\* A version of validate_pep508_lines that parses nothing.
validate_pep508_lines_unchecked(items, source) == NoError

\* validate_pep508_lines: the error of the first line that does not parse.
validate_pep508_lines(items, source) == invalid_at(items, source, first_invalid(items, 1))

\* The list `unpinned` of assert_all_pinned: the items of a list of valid
\* requirements that have no specifier and no URL, in order.
RECURSIVE unpinned_items(_, _)
unpinned_items(items, i) ==
    IF i > Len(items) THEN <<>>
    ELSE (IF is_unpinned(parse_requirement(items[i])) THEN <<items[i]>> ELSE <<>>)
         \o unpinned_items(items, i + 1)

unpinned_error_first_only(source, unpinned) ==
    IF unpinned # <<>> THEN Error("unpinned", source, <<unpinned[1]>>) ELSE NoError

unpinned_error(source, unpinned) ==
    IF unpinned # <<>> THEN Error("unpinned", source, unpinned) ELSE NoError

\* A version of assert_all_pinned that raises at the first unpinned item.
assert_all_pinned_first_only(items, source) ==
    IF first_invalid(items, 1) # 0 THEN validate_pep508_lines(items, source)
    ELSE unpinned_error_first_only(source, unpinned_items(items, 1))

\* assert_all_pinned: parse_requirement raises inside the loop, so a line that
\* does not parse wins over the unpinned error raised after the loop.
assert_all_pinned(items, source) ==
    IF first_invalid(items, 1) # 0 THEN validate_pep508_lines(items, source)
    ELSE unpinned_error(source, unpinned_items(items, 1))

\* -------------------------------------------------------- load_dependencies

\* The loops of load_dependencies over the runtime list and then each group's
\* list (lists is a sequence of <<source, list>>): the first error raised by
\* validate_pep508_lines, from entry i on.
RECURSIVE validate_each(_, _)
validate_next(e, lists, i) == IF e.kind # "none" THEN e ELSE validate_each(lists, i + 1)
validate_each(lists, i) ==
    IF i > Len(lists) THEN NoError
    ELSE validate_next(validate_pep508_lines(lists[i][2], lists[i][1]), lists, i)

\* The same loops for assert_all_pinned.
RECURSIVE assert_each_pinned(_, _)
assert_next(e, lists, i) == IF e.kind # "none" THEN e ELSE assert_each_pinned(lists, i + 1)
assert_each_pinned(lists, i) ==
    IF i > Len(lists) THEN NoError
    ELSE assert_next(assert_all_pinned(lists[i][2], lists[i][1]), lists, i)

\* read_requirements_file over the runtime file and then each group's file, in
\* the order of paths.group_txt: the list of each source, up to the first error.
RECURSIVE read_all(_, _, _, _)
read_next(r, sources, files, i, out) ==
    IF r.err.kind # "none" THEN [err |-> r.err, out |-> <<>>]
    ELSE read_all(sources, files, i + 1, Append(out, <<sources[i], r.out>>))
read_all(sources, files, i, out) ==
    IF i > Len(sources) THEN [err |-> NoError, out |-> out]
    ELSE read_next(read_requirements_file(sources[i], files[sources[i]]),
                   sources, files, i, out)

\* apply_pin_strategy on the runtime list and on each group's list.
pin_each(lists, strategy) ==
    [k \in 1..Len(lists) |-> <<lists[k][1], apply_pin_strategy(lists[k][2], strategy)>>]

Loaded(e, deps) == [err |-> e, deps |-> IF e.kind # "none" THEN <<>> ELSE deps]

\* A version of load_pinned without the fail_on_unpinned block.
load_pinned_unchecked(cfg, deps) == Loaded(NoError, deps)

\* The fail_on_unpinned block of load_dependencies, on the lists the pin
\* strategy returned.
load_pinned(cfg, deps) ==
    Loaded(IF cfg.fail_on_unpinned THEN assert_each_pinned(deps, 1) ELSE NoError, deps)

\* The pin strategy and what follows, invalid being the outcome of the
\* validate_pep508 block.
load_validated(cfg, raw, invalid) ==
    IF invalid.kind # "none" THEN Loaded(invalid, <<>>)
    ELSE load_pinned(cfg, pin_each(raw, cfg.pin_strategy))

\* The validate_pep508 block and what follows, raw being what the files held.
load_read(cfg, raw) ==
    IF raw.err.kind # "none" THEN Loaded(raw.err, <<>>)
    ELSE load_validated(cfg, raw.out,
                        IF cfg.validate_pep508 THEN validate_each(raw.out, 1) ELSE NoError)

\* load_dependencies: the error raised, or the lists to write, the runtime
\* list first and then one per group.
load_dependencies(cfg, group_names, files) ==
    load_read(cfg, read_all(<<RUNTIME>> \o group_names, files, 1, <<>>))

\* ---------------------------------------------------------------- manifest

\* The text of a manifest, by what tomlkit reads in it and writes back: the
\* shape of the root 'project' key, the dynamic list, the keys of
\* [tool.setuptools.dynamic], the dependency arrays with their layout (one
\* item per line or on one line), and the lines of the text outside those
\* keys. tool_dynamic.present says that tool.setuptools.dynamic is a table,
\* the only shape remove_dynamic_dependencies looks into. kind is "none" for no file,
\* "garbage" for text tomlkit cannot parse, "toml" otherwise.
NoArray == [present |-> FALSE, items |-> <<>>, multiline |-> FALSE]
Array(items, multiline) == [present |-> TRUE, items |-> items, multiline |-> multiline]

NoText == [kind |-> "none", project |-> "absent", dynamic |-> NoArray,
           tool_dynamic |-> [present |-> FALSE, keys |-> {}],
           dependencies |-> NoArray,
           groups |-> [present |-> FALSE, arrays |-> <<>>],
           rest |-> <<>>]
Garbage == [NoText EXCEPT !.kind = "garbage"]
Toml(project) == [NoText EXCEPT !.kind = "toml", !.project = project]

\* as_toml_array.
as_toml_array(items, compact) == Array(items, ~compact)

\* A version of ensure_project_table that only looks for the key.
ensure_project_table_any_value(doc) ==
    IF doc.project = "absent" THEN Error("missing_project_table", <<>>, <<>>)
    ELSE NoError

\* ensure_project_table: the error it raises, if any.
ensure_project_table(doc) ==
    IF doc.project = "absent" THEN Error("missing_project_table", <<>>, <<>>)
    ELSE IF doc.project # "table" THEN Error("project_not_table", <<>>, <<>>)
    ELSE NoError

\* [value for value in dyn_values if value != "dependencies"].
RECURSIVE kept_values(_, _)
kept_values(values, i) ==
    IF i > Len(values) THEN <<>>
    ELSE (IF values[i] # "dependencies" THEN <<values[i]>> ELSE <<>>)
         \o kept_values(values, i + 1)

\* A version of remove_dynamic_dependencies that leaves emptied containers.
remove_dynamic_dependencies_keep_empty(doc) ==
    [doc EXCEPT !.dynamic.items = kept_values(doc.dynamic.items, 1),
                !.tool_dynamic.keys = doc.tool_dynamic.keys \ {"dependencies"}]

remove_dynamic_dependencies(doc) ==
    LET kept == kept_values(doc.dynamic.items, 1)
        dynamic == IF ~doc.dynamic.present THEN doc.dynamic
                   ELSE IF kept # <<>> THEN as_toml_array(kept, FALSE)
                   ELSE NoArray
        keys == doc.tool_dynamic.keys \ {"dependencies"}
        tool_dynamic == IF ~doc.tool_dynamic.present THEN doc.tool_dynamic
                        ELSE IF keys # {} THEN [present |-> TRUE, keys |-> keys]
                        ELSE [present |-> FALSE, keys |-> {}]
    IN [doc EXCEPT !.dynamic = dynamic, !.tool_dynamic = tool_dynamic]

\* line.rstrip().
rstrip(line) == Slice(line, 1, SpanBack(line, Len(line), WsChars))

\* The loop of compact_toml_text from line i on: a blank line that follows a
\* blank line is dropped.
RECURSIVE compacted(_, _, _)
compacted(lines, i, prev_blank) ==
    IF i > Len(lines) THEN <<>>
    ELSE IF lines[i] = <<>> /\ prev_blank THEN compacted(lines, i + 1, TRUE)
    ELSE <<lines[i]>> \o compacted(lines, i + 1, lines[i] = <<>>)

\* A version of compact_toml_text that strips both ends of each line.
compact_toml_text_strip(text) ==
    [text EXCEPT !.rest = compacted([k \in 1..Len(text.rest) |-> strip(text.rest[k])],
                                    1, FALSE)]

\* compact_toml_text, on the lines outside the dependency arrays (the arrays
\* tomlkit writes have no trailing space and no blank line). Its last
\* rstrip() acts on the end of the whole text, where the rewritten
\* dependency-groups table may stand, and is left out.
compact_toml_text(text) ==
    [text EXCEPT !.rest = compacted([k \in 1..Len(text.rest) |-> rstrip(text.rest[k])],
                                    1, FALSE)]

\* A version of render_updated_pyproject that writes the runtime list only.
render_updated_pyproject_runtime_only(original, deps, compact_toml) ==
    IF original.kind = "none"
    THEN [err |-> Error("missing_file", <<>>, <<"pyproject.toml">>), rendered |-> NoText]
    ELSE [err |-> NoError,
          rendered |-> [original EXCEPT
                           !.dependencies = as_toml_array(deps[1][2], compact_toml)]]

\* A version of render_updated_pyproject that adds the group arrays to the
\* dependency-groups table already in the document.
render_updated_pyproject_add_groups(original, deps, compact_toml) ==
    IF original.kind # "toml" \/ ensure_project_table(original).kind # "none"
    THEN [err |-> Error("toml_parse", <<>>, <<>>), rendered |-> NoText]
    ELSE LET doc == remove_dynamic_dependencies(original)
             arrays == [k \in 1..(Len(deps) - 1) |->
                           <<deps[k + 1][1], as_toml_array(deps[k + 1][2], compact_toml)>>]
             out == [doc EXCEPT
                        !.dependencies = as_toml_array(deps[1][2], compact_toml),
                        !.groups = [present |-> TRUE,
                                    arrays |-> doc.groups.arrays \o arrays]]
         IN [err |-> NoError,
             rendered |-> IF compact_toml THEN compact_toml_text(out) ELSE out]

\* render_updated_pyproject, deps being the lists of load_dependencies: the
\* error raised, or the rendered text.
render_updated_pyproject(original, deps, compact_toml) ==
    IF original.kind = "none"
    THEN [err |-> Error("missing_file", <<>>, <<"pyproject.toml">>), rendered |-> NoText]
    ELSE IF original.kind = "garbage"
    THEN [err |-> Error("toml_parse", <<>>, <<>>), rendered |-> NoText]
    ELSE IF ensure_project_table(original).kind # "none"
    THEN [err |-> ensure_project_table(original), rendered |-> NoText]
    ELSE LET doc == remove_dynamic_dependencies(original)
             arrays == [k \in 1..(Len(deps) - 1) |->
                           <<deps[k + 1][1], as_toml_array(deps[k + 1][2], compact_toml)>>]
             out == [doc EXCEPT
                        !.dependencies = as_toml_array(deps[1][2], compact_toml),
                        !.groups = [present |-> TRUE, arrays |-> arrays]]
         IN [err |-> NoError,
             rendered |-> IF compact_toml THEN compact_toml_text(out) ELSE out]

\* ----------------------------------------------------------- chunk_content

\* The line boundaries of the modelled texts: '\n', '\r' and '\r\n'.
LineBreaks == {"\n", "\r"}

\* The length of the line boundary at index i of text.
break_length(text, i) ==
    IF text[i] = "\r" /\ i + 1 <= Len(text) /\ text[i + 1] = "\n" THEN 2 ELSE 1

\* text.splitlines() from index i on, ln being the line under way: a
\* boundary ends a line, empty or not, and the end of the text ends a line
\* that is not empty.
RECURSIVE splitlines_from(_, _, _)
splitlines_from(text, i, ln) ==
    IF i > Len(text) THEN (IF ln # <<>> THEN <<ln>> ELSE <<>>)
    ELSE IF text[i] \in LineBreaks
    THEN <<ln>> \o splitlines_from(text, i + break_length(text, i), <<>>)
    ELSE splitlines_from(text, i + 1, Append(ln, text[i]))

splitlines(text) == splitlines_from(text, 1, <<>>)

\* "".join(buf), from item k on.
RECURSIVE join_from(_, _)
join_from(buf, k) == IF k > Len(buf) THEN <<>> ELSE buf[k] \o join_from(buf, k + 1)
join(buf) == join_from(buf, 1)

\* The tuples chunk_content yields.
Chunk(first, last, content) == [start_line |-> first, end_line |-> last, text |-> content]

\* Whether the loop of chunk_content yields the buffer before it takes the
\* line ln2.
\* A version without the test of buf:
must_yield_any_buffer(count, ln2, limit, buf) == count + Len(ln2) > limit

must_yield(count, ln2, limit, buf) == count + Len(ln2) > limit /\ buf # <<>>

\* ------------------------------------------------------------------- state

VARIABLES
    config,       \* DepsSyncConfig, as parsed from the command line
    uv_on_path,   \* which(config.uv_bin) is not None
    inputs_exist, \* every .in input file (runtime and groups) exists
    manifest,     \* the text of pyproject.toml on disk
    bak,          \* the text of pyproject.toml.bak on disk
    txt,          \* the requirement .txt files on disk, by source
    lock,         \* whether the lock file has been written
    tmp_files,    \* the number of requirements-union.*.in files on disk
    pc,           \* the position of the run in main / sync_dependencies
    group_names,  \* the keys of paths.group_in, in dict order
    group_in,     \* paths.group_in
    group_txt,    \* paths.group_txt
    union_in,     \* whether compile_inputs' union_in is set
    phase,        \* the index of the next uv_compile call of compile_inputs
    deps,         \* runtime_deps and group_deps of sync_dependencies
    original,     \* original of sync_dependencies
    rendered,     \* rendered of sync_dependencies
    err,          \* the exception that ended the run
    stderr,       \* the warnings written to sys.stderr
    stdout,       \* the texts written to sys.stdout
    uv_calls,     \* the resolver subprocesses run so far
    writes,       \* the number of times pyproject.toml was written
    pre,          \* the text of pyproject.toml before the run
    run,          \* the number of the run of main under way in this project
    items,        \* the list handed to apply_pin_strategy
    strategy,     \* the strategy handed to apply_pin_strategy
    once,         \* apply_pin_strategy(items)
    twice,        \* apply_pin_strategy(apply_pin_strategy(items))
    pin_pc,       \* how many times the strategy has been applied
    text,         \* the text handed to chunk_content
    chunk_chars,  \* the chunk_chars handed to chunk_content
    chunk_lines,  \* lines of chunk_content
    line_no,      \* i of the loop of chunk_content, for its next turn
    buf,          \* buf of chunk_content
    cur,          \* cur of chunk_content
    start_line,   \* start_line of chunk_content
    chunks,       \* the tuples chunk_content has yielded
    chunk_pc      \* the position of the generator chunk_content

diskVars == <<manifest, bak, txt, lock, tmp_files>>
pathVars == <<group_names, group_in, group_txt>>
runVars == <<pc, pathVars, union_in, phase, deps, original, rendered, err,
             stderr, stdout, uv_calls, writes>>
envVars == <<config, uv_on_path, inputs_exist, pre, run>>
pinVars == <<items, strategy, once, twice, pin_pc>>
chunkVars == <<text, chunk_chars, chunk_lines, line_no, buf, cur, start_line, chunks, chunk_pc>>
vars == <<envVars, diskVars, runVars, pinVars, chunkVars>>

\* ------------------------------------------------------------------ inputs

\* All sequences over S of length at most n.
RECURSIVE SeqsUpTo(_, _)
SeqsUpTo(S, n) ==
    IF n = 0 THEN {<<>>}
    ELSE LET shorter == SeqsUpTo(S, n - 1) IN
         shorter \cup {Append(q, x) : q \in shorter, x \in S}

GroupValues == {G_ops, G_malformed}

Fresh == Toml("table")
Synced == [Fresh EXCEPT
              !.dependencies = Array(<<L_pin>>, TRUE),
              !.groups = [present |-> TRUE,
                          arrays |-> << <<DEV, Array(<<L_pin_b>>, TRUE)>> >>]]
Dynamic == [Fresh EXCEPT
               !.dynamic = Array(<<"version", "dependencies">>, FALSE),
               !.tool_dynamic = [present |-> TRUE, keys |-> {"dependencies"}]]

\* A manifest whose root 'project' key holds a value that is no table.
NotTable == Toml("value")

ManifestTexts == {NoText, Garbage, Toml("absent"), NotTable, Fresh, Synced, Dynamic}

RuntimeFiles == {Absent,
                 File(<<L_pin>>),
                 File(<<L_comment, L_name_b, L_pin_padded, L_blank, L_name_c>>),
                 File(<<L_pin, L_invalid>>),
                 File(<<L_include, L_pin>>),
                 File(<<L_arbitrary>>)}
DevFiles == {Absent, File(<<L_pin_b>>), File(<<L_name_d, L_pin_b, L_name_b>>),
             File(<<L_include, L_pin_b>>)}
OpsFiles == {Absent, File(<<L_pin>>)}

\* What a resolver run can leave in its output file.
ResolverOutputs == {File(<<L_pin>>), File(<<L_pin, L_pin_b>>)}

Configs ==
    [pyproject_given : BOOLEAN, dry_run : BOOLEAN,
     group : SeqsUpTo(GroupValues, MaxOverrides), compile_in : BOOLEAN,
     uv_verbose : BOOLEAN,
     pin_strategy : {"exact", "minimum"}, compact_toml : BOOLEAN,
     fail_on_unpinned : BOOLEAN, validate_pep508 : BOOLEAN, backup : BOOLEAN,
     strict_group_whitelist : BOOLEAN]

IdleRun ==
    /\ pc = "start" /\ group_names = <<>> /\ group_in = <<>> /\ group_txt = <<>>
    /\ union_in = FALSE /\ phase = 0
    /\ deps = <<>> /\ original = NoText /\ rendered = NoText /\ err = NoError
    /\ stderr = <<>> /\ stdout = <<>> /\ uv_calls = <<>> /\ writes = 0

IdleChunk ==
    /\ text = <<>> /\ chunk_chars = 1 /\ chunk_lines = <<>> /\ line_no = 1
    /\ buf = <<>> /\ cur = 0
    /\ start_line = 1 /\ chunks = <<>> /\ chunk_pc = "idle"

IdlePin ==
    /\ items = <<>> /\ strategy = "exact" /\ once = <<>> /\ twice = <<>>
    /\ pin_pc = "idle"

\* The state before main runs. An input that no run reads in the state at
\* hand is held at one value: --pyproject given or not when the manifest
\* exists, the strict whitelist without an override, the resolver binary
\* and the .in files without compilation, the file of a group no --group
\* value names, the layout of the arrays of a manifest that has no [project]
\* table to hold them, and,
\* with compilation (where the resolver rewrites every .txt file before it
\* is read), what the .txt files hold beyond being there or not. The
\* resolver is run with --quiet: CompileSpec has the runs with --uv-verbose.
Init ==
    /\ config \in Configs
    /\ ~config.uv_verbose
    /\ manifest \in ManifestTexts
    /\ (manifest.kind # "none" => config.pyproject_given)
    /\ (ensure_project_table(manifest).kind # "none" => ~config.compact_toml)
    /\ (G_ops \notin Range(config.group) => ~config.strict_group_whitelist)
    /\ uv_on_path \in BOOLEAN
    /\ (~config.compile_in => uv_on_path)
    /\ inputs_exist \in BOOLEAN
    /\ (~config.compile_in => inputs_exist)
    /\ bak = NoText
    /\ \E r \in RuntimeFiles, d \in DevFiles, o \in OpsFiles :
          /\ (G_ops \notin Range(config.group) => o = Absent)
          /\ (config.compile_in => r \in {Absent, File(<<L_pin>>)}
                                   /\ d \in {Absent, File(<<L_pin_b>>)})
          /\ txt = [k \in {RUNTIME, DEV, OPS} |->
                       IF k = RUNTIME THEN r ELSE IF k = DEV THEN d ELSE o]
    /\ lock = FALSE
    /\ tmp_files = 0
    /\ pre = manifest
    /\ run = 1
    /\ IdleRun
    /\ IdlePin
    /\ IdleChunk

\* ------------------------------------------------------------------- steps

Fail(e) == /\ pc' = "failed"
           /\ err' = e

\* resolve_paths: find_pyproject when --pyproject is not given, then the
\* group overrides and the whitelist check.
ResolvePaths ==
    /\ pc = "start"
    /\ LET overrides == parse_group_overrides(config.group)
           group_in_raw == DictUpdate(DEFAULT_GROUP_IN, overrides.out, 1)
           unknown == unknown_groups(DictKeys(group_in_raw))
       IN IF ~config.pyproject_given /\ manifest.kind = "none"
          THEN /\ Fail(Error("no_pyproject", <<>>, <<>>))
               /\ UNCHANGED <<pathVars, stderr>>
          ELSE IF ~overrides.ok
          THEN /\ Fail(Error("bad_group_override", <<>>, <<overrides.out>>))
               /\ UNCHANGED <<pathVars, stderr>>
          ELSE IF unknown # {} /\ config.strict_group_whitelist
          THEN /\ Fail(Error("unknown_group", <<>>, <<unknown>>))
               /\ UNCHANGED <<pathVars, stderr>>
          ELSE /\ pc' = "resolved"
               /\ group_names' = DictKeys(group_in_raw)
               /\ group_in' = group_in_paths(group_in_raw)
               /\ group_txt' = group_txt_paths(group_in_raw)
               /\ stderr' = IF unknown # {}
                            THEN Append(stderr, Error("unknown_group", <<>>, <<unknown>>))
                            ELSE stderr
               /\ UNCHANGED err
    /\ UNCHANGED <<union_in, phase, deps, original, rendered, stdout, uv_calls, writes>>
    /\ UNCHANGED <<envVars, diskVars, pinVars, chunkVars>>

\* Whether sync_dependencies calls compile_inputs.
\* A version that does not in a dry run:
must_compile_unless_dry_run(cfg) == cfg.compile_in /\ ~cfg.dry_run

must_compile(cfg) == cfg.compile_in

\* write_union_in_file, the first statement of compile_inputs: mkstemp
\* creates the file, and write_text either fills it or raises OSError before
\* union_in is bound, in which case the finally block has nothing to unlink.
WriteUnion ==
    /\ pc = "resolved"
    /\ must_compile(config)
    /\ tmp_files' = tmp_files + 1
    /\ \E written \in BOOLEAN :
          IF written
          THEN /\ pc' = "compiling"
               /\ union_in' = TRUE
               /\ phase' = 0
               /\ UNCHANGED err
          ELSE /\ Fail(Error("io_error", <<>>, <<>>))
               /\ UNCHANGED <<union_in, phase>>
    /\ UNCHANGED <<pathVars, deps, original, rendered, stderr, stdout, uv_calls, writes>>
    /\ UNCHANGED <<envVars, manifest, bak, txt, lock, pinVars, chunkVars>>

\* The uv_compile call number phase of compile_inputs: 0 compiles the union
\* into the lock file, 1 the runtime input, 1 + k the input of group k. The
\* finally block of compile_inputs runs in the step that leaves the try.
\* A version of the calls that passes no constraints file.
UvCall_unconstrained(k) ==
    [phase |-> IF k = 0 THEN "lock" ELSE IF k = 1 THEN "runtime" ELSE "group",
     source |-> IF k <= 1 THEN RUNTIME ELSE group_names[k - 1],
     constrained |-> FALSE]

UvCall(k) ==
    [phase |-> IF k = 0 THEN "lock" ELSE IF k = 1 THEN "runtime" ELSE "group",
     source |-> IF k <= 1 THEN RUNTIME ELSE group_names[k - 1],
     constrained |-> k # 0]

\* Whether uv_compile raises FileNotFoundError before building the command.
\* A version without the which() test:
uv_missing_never(on_path) == FALSE

uv_missing(on_path) == ~on_path

\* Whether run(cmd, check=True) raises CalledProcessError.
\* A version with check=False:
run_raises_never(exit_ok) == FALSE

run_raises(exit_ok) == ~exit_ok

\* The exit statuses the resolver can return: it cannot read an input file
\* that does not exist, and the union input names every .in file.
ExitStatuses == IF inputs_exist THEN BOOLEAN ELSE {FALSE}

\* Whether the resolver can write to the standard output of the run, which
\* run(cmd) hands it: the command asks it not to with --quiet, unless
\* --uv-verbose is given.
\* A version in which the resolver never does:
resolver_may_print_never(verbose) == {FALSE}

resolver_may_print(verbose) == IF verbose THEN BOOLEAN ELSE {FALSE}

UvCompile ==
    /\ pc = "compiling"
    /\ IF uv_missing(uv_on_path)
       THEN /\ Fail(Error("resolver_missing", <<>>, <<>>))
            /\ tmp_files' = tmp_files - 1
            /\ union_in' = FALSE
            /\ UNCHANGED <<phase, uv_calls, txt, lock, stdout>>
       ELSE \E exit_ok \in ExitStatuses, out \in ResolverOutputs,
               printed \in resolver_may_print(config.uv_verbose) :
               /\ uv_calls' = Append(uv_calls, [call |-> UvCall(phase), exit_ok |-> exit_ok])
               /\ stdout' = IF printed THEN Append(stdout, out) ELSE stdout
               /\ IF run_raises(exit_ok)
                  THEN /\ Fail(Error("resolver_failed", <<>>, <<>>))
                       /\ tmp_files' = tmp_files - 1
                       /\ union_in' = FALSE
                       /\ UNCHANGED <<phase, txt, lock>>
                  ELSE /\ IF phase = 0
                          THEN lock' = TRUE /\ UNCHANGED txt
                          ELSE /\ txt' = [txt EXCEPT ![UvCall(phase).source] = out]
                               /\ UNCHANGED lock
                       /\ IF phase = Len(group_names) + 1
                          THEN /\ pc' = "compiled"
                               /\ tmp_files' = tmp_files - 1
                               /\ union_in' = FALSE
                               /\ UNCHANGED phase
                          ELSE /\ phase' = phase + 1
                               /\ UNCHANGED <<pc, tmp_files, union_in>>
                       /\ UNCHANGED err
    /\ UNCHANGED <<pathVars, deps, original, rendered, stderr, writes>>
    /\ UNCHANGED <<envVars, manifest, bak, pinVars, chunkVars>>

\* load_dependencies, after compile_inputs or at once with --no-compile-in.
Load ==
    /\ pc = "compiled" \/ (pc = "resolved" /\ ~must_compile(config))
    /\ LET r == load_dependencies(config, group_names, txt) IN
       IF r.err.kind # "none"
       THEN Fail(r.err) /\ UNCHANGED deps
       ELSE pc' = "loaded" /\ deps' = r.deps /\ UNCHANGED err
    /\ UNCHANGED <<pathVars, union_in, phase, original, rendered, stderr, stdout,
                   uv_calls, writes>>
    /\ UNCHANGED <<envVars, diskVars, pinVars, chunkVars>>

\* render_updated_pyproject.
Render ==
    /\ pc = "loaded"
    /\ LET r == render_updated_pyproject(manifest, deps, config.compact_toml) IN
       IF r.err.kind # "none"
       THEN Fail(r.err) /\ UNCHANGED <<original, rendered>>
       ELSE pc' = "rendered" /\ original' = manifest /\ rendered' = r.rendered
            /\ UNCHANGED err
    /\ UNCHANGED <<pathVars, union_in, phase, deps, stderr, stdout, uv_calls, writes>>
    /\ UNCHANGED <<envVars, diskVars, pinVars, chunkVars>>

\* Whether sync_dependencies returns before write_updated_pyproject.
\* A version that never does:
returns_before_write_never(cfg) == FALSE

returns_before_write(cfg) == cfg.dry_run

\* The dry-run return of sync_dependencies and the write of main to stdout.
DryRun ==
    /\ pc = "rendered"
    /\ returns_before_write(config)
    /\ pc' = "done"
    /\ stdout' = Append(stdout, rendered)
    /\ UNCHANGED <<pathVars, union_in, phase, deps, original, rendered, err, stderr,
                   uv_calls, writes>>
    /\ UNCHANGED <<envVars, diskVars, pinVars, chunkVars>>

\* Whether write_updated_pyproject goes past its first return.
\* A version without the comparison:
must_write_always(orig, rend) == TRUE

must_write(orig, rend) == rend # orig

\* write_updated_pyproject when rendered == original: the early return.
Unchanged ==
    /\ pc = "rendered"
    /\ ~returns_before_write(config)
    /\ ~must_write(original, rendered)
    /\ pc' = "done"
    /\ UNCHANGED <<pathVars, union_in, phase, deps, original, rendered, err, stderr,
                   stdout, uv_calls, writes>>
    /\ UNCHANGED <<envVars, diskVars, pinVars, chunkVars>>

\* Whether write_updated_pyproject copies the manifest to the .bak file.
\* A version that never does:
must_backup_never(create_backup) == FALSE

must_backup(create_backup) == create_backup

\* shutil.copy2(pyproject_path, backup_path) of write_updated_pyproject.
Backup ==
    /\ pc = "rendered"
    /\ ~returns_before_write(config)
    /\ must_write(original, rendered)
    /\ must_backup(config.backup)
    /\ pc' = "backed_up"
    /\ bak' = manifest
    /\ UNCHANGED <<pathVars, union_in, phase, deps, original, rendered, err, stderr,
                   stdout, uv_calls, writes>>
    /\ UNCHANGED <<envVars, manifest, txt, lock, tmp_files, pinVars, chunkVars>>

\* pyproject_path.write_text(rendered) of write_updated_pyproject.
Write ==
    /\ \/ pc = "backed_up"
       \/ /\ pc = "rendered"
          /\ ~returns_before_write(config)
          /\ must_write(original, rendered)
          /\ ~must_backup(config.backup)
    /\ pc' = "done"
    /\ manifest' = rendered
    /\ writes' = writes + 1
    /\ UNCHANGED <<pathVars, union_in, phase, deps, original, rendered, err, stderr,
                   stdout, uv_calls>>
    /\ UNCHANGED <<envVars, bak, txt, lock, tmp_files, pinVars, chunkVars>>

Next ==
    \/ ResolvePaths
    \/ WriteUnion
    \/ UvCompile
    \/ Load
    \/ Render
    \/ DryRun
    \/ Unchanged
    \/ Backup
    \/ Write

Spec == Init /\ [][Next]_vars

\* ------------------------------------------------------ properties of a run

\* The sources load_dependencies reads, the runtime list first.
Sources == <<RUNTIME>> \o group_names

\* The run has gone through load_dependencies.
LoadReached ==
    /\ pc \in {"loaded", "rendered", "backed_up", "done", "failed"}
    /\ err.kind \notin {"no_pyproject", "bad_group_override", "unknown_group",
                        "io_error", "resolver_missing", "resolver_failed"}

\* The lines of the .txt file of src that are neither blank nor comments.
Lines(src) ==
    SelectSeq([k \in 1..Len(txt[src].lines) |-> strip(txt[src].lines[k])],
              LAMBDA l : l # <<>> /\ l[1] # "#")

\* Every .txt file is there and holds no directive and no index option.
Readable ==
    \A k \in 1..Len(Sources) :
        /\ txt[Sources[k]].exists
        /\ \A j \in 1..Len(Lines(Sources[k])) :
              /\ ~is_directive(Lines(Sources[k])[j])
              /\ ~is_index_option(Lines(Sources[k])[j])

\* The lines of src as the checks of load_dependencies see them.
Checked(src) == apply_pin_strategy(Lines(src), config.pin_strategy)

\* Every line parses, as read and as the pin strategy leaves it.
AllValid ==
    \A k \in 1..Len(Sources) : \A j \in 1..Len(Lines(Sources[k])) :
        /\ parse_requirement(Lines(Sources[k])[j]).valid
        /\ parse_requirement(Checked(Sources[k])[j]).valid

\* A line that parses and has neither a version specifier nor a URL.
Offending(l) ==
    /\ parse_requirement(l).valid
    /\ ~parse_requirement(l).specifier
    /\ ~parse_requirement(l).url

Offenders(src) == SelectSeq(Checked(src), Offending)

\* The sources that hold an offending line, and the first of them.
OffendingSources == {k \in 1..Len(Sources) : Offenders(Sources[k]) # <<>>}
FirstOffending == CHOOSE k \in OffendingSources : \A j \in OffendingSources : k <= j

\* C1: a run that fails, at whatever step, leaves pyproject.toml with the text
\* it had before the run and creates no .bak file; pyproject.toml is written
\* at most once, by the last step of a run that raised nothing, and with
\* fail_on_unpinned only when every loaded line parses and is pinned.
C1_FailedRunWritesNothing ==
    /\ (pc = "failed" => manifest = pre /\ bak = NoText /\ writes = 0)
    /\ writes <= 1
    /\ (manifest # pre \/ writes > 0 => pc = "done" /\ err.kind = "none")
    /\ (writes > 0 /\ config.fail_on_unpinned =>
          \A k \in 1..Len(deps) : \A j \in 1..Len(deps[k][2]) :
              /\ parse_requirement(deps[k][2][j]).valid
              /\ ~Offending(deps[k][2][j]))

\* A run with --backup and without --dry-run that compiled, loaded, and
\* failed in render_updated_pyproject.
C1_Witness ==
    /\ pc = "failed"
    /\ err.kind = "missing_project_table"
    /\ config.backup /\ ~config.dry_run /\ config.compile_in
    /\ uv_calls # <<>>

\* C2: with --dry-run pyproject.toml keeps its text and no .bak file is
\* created, whatever the other options and the inputs; the run ends after
\* rendering, with the rendered text written to stdout.
C2_DryRunWritesNothing ==
    config.dry_run =>
        /\ manifest = pre /\ bak = NoText /\ writes = 0
        /\ pc # "backed_up"
        /\ (pc = "done" => stdout = <<rendered>> /\ rendered.kind = "toml")

\* A finished dry run with --backup whose rendered text differs from the file.
C2_Witness ==
    /\ config.dry_run /\ config.backup
    /\ pc = "done"
    /\ rendered # original
    /\ stdout = <<rendered>>

\* C3: without --dry-run, when the rendered text equals the text read from
\* pyproject.toml, nothing is written and no backup is made, --backup or not;
\* pyproject.toml is written only when the rendered text differs.
C3_UnchangedWritesNothing ==
    /\ (~config.dry_run /\ pc \in {"rendered", "backed_up", "done"} /\ rendered = original =>
          pc # "backed_up" /\ manifest = pre /\ bak = NoText /\ writes = 0)
    /\ (writes > 0 => rendered # original)

\* A finished run with --backup whose rendered text is the text of the file.
C3_Witness ==
    /\ ~config.dry_run /\ config.backup
    /\ pc = "done" /\ err.kind = "none"
    /\ rendered = original
    /\ original.kind = "toml"

\* C4: without --dry-run, with --backup and a rendered text that differs, the
\* copy to pyproject.toml.bak is made before pyproject.toml is overwritten;
\* after the run the .bak file holds the text pyproject.toml had before the
\* run and pyproject.toml holds the rendered text.
C4_BackupBeforeOverwrite ==
    /\ (pc = "backed_up" => bak = pre /\ manifest = pre /\ writes = 0)
    /\ (config.backup /\ manifest # pre => bak = pre)
    /\ (~config.dry_run /\ config.backup /\ pc = "done" /\ rendered # original =>
          bak = pre /\ manifest = rendered /\ writes = 1)

\* A finished run that backed up and then overwrote pyproject.toml.
C4_Witness ==
    /\ ~config.dry_run /\ config.backup
    /\ pc = "done"
    /\ bak = pre /\ manifest = rendered /\ manifest # pre

\* C8, as stated: with fail_on_unpinned, when the files can be read, every
\* line parses and some line of the runtime list or of a group has neither a
\* version specifier nor a URL, the run fails with the unpinned error, the
\* error names every such line of every list, and pyproject.toml is not written.
C8_ListsEveryOffender ==
    (config.fail_on_unpinned /\ LoadReached /\ Readable /\ AllValid
     /\ OffendingSources # {}) =>
        /\ pc = "failed" /\ err.kind = "unpinned"
        /\ \A k \in OffendingSources : Range(Offenders(Sources[k])) \subseteq Range(err.detail)
        /\ manifest = pre /\ writes = 0

\* C8, amended: under the same conditions the run fails with the unpinned
\* error of the first list, runtime first and then the groups in order, that
\* holds such a line; the error names that list and all of its offending
\* lines, in order, and none of a later list; pyproject.toml is not written.
\* When a line does not parse at the all-pinned check, the run fails as well,
\* with the unpinned error or the invalid-requirement error.
C8_ListsOffendersOfFirstSource ==
    /\ (config.fail_on_unpinned /\ LoadReached /\ Readable /\ AllValid
        /\ OffendingSources # {} =>
          /\ pc = "failed" /\ err.kind = "unpinned"
          /\ err.source = Sources[FirstOffending]
          /\ err.detail = Offenders(Sources[FirstOffending])
          /\ manifest = pre /\ bak = NoText /\ writes = 0)
    /\ (config.fail_on_unpinned /\ LoadReached /\ Readable /\ OffendingSources # {} =>
          /\ pc = "failed" /\ err.kind \in {"unpinned", "invalid_requirement"}
          /\ manifest = pre /\ bak = NoText /\ writes = 0)

\* A run that failed on two unpinned lines of the runtime list while the dev
\* group holds an unpinned line the error does not name.
C8_Witness ==
    /\ pc = "failed" /\ err.kind = "unpinned"
    /\ err.source = RUNTIME
    /\ Len(err.detail) = 2
    /\ Readable
    /\ \E k \in OffendingSources : ~(Range(Offenders(Sources[k])) \subseteq Range(err.detail))

\* A --group value names a group outside the whitelist, and resolve_paths
\* gets to the whitelist check.
NamesUnknownGroup ==
    /\ G_ops \in Range(config.group)
    /\ G_malformed \notin Range(config.group)
    /\ config.pyproject_given \/ pre.kind # "none"

\* C9: when a --group value names a group outside the whitelist, without
\* --strict-group-whitelist a warning goes to stderr and the run goes on with
\* that group; with it the run fails with the unknown-group error before any
\* file is written, any resolver is run and any temporary file is created.
C9_UnknownGroup ==
    (NamesUnknownGroup /\ pc # "start") =>
        IF config.strict_group_whitelist
        THEN /\ pc = "failed" /\ err.kind = "unknown_group"
             /\ OPS \in err.detail[1]
             /\ manifest = pre /\ bak = NoText /\ writes = 0
             /\ uv_calls = <<>> /\ tmp_files = 0 /\ ~lock
             /\ stderr = <<>>
        ELSE /\ Len(stderr) = 1 /\ stderr[1].kind = "unknown_group"
             /\ OPS \in stderr[1].detail[1]
             /\ err.kind # "unknown_group"
             /\ OPS \in Range(group_names)

\* A run without --strict-group-whitelist that warned about the group,
\* compiled its input, and wrote pyproject.toml with its list.
C9_Witness ==
    /\ NamesUnknownGroup /\ ~config.strict_group_whitelist
    /\ pc = "done" /\ writes = 1
    /\ config.compile_in
    /\ Len(stderr) = 1
    /\ \E k \in 1..Len(manifest.groups.arrays) : manifest.groups.arrays[k][1] = OPS

\* C10, as stated: with the options at their defaults (reconstruction
\* enabled), when the .txt file of the runtime list or of a group is missing
\* as load_dependencies runs, the run does not fail with the missing-file
\* error: it warns of the reconstruction on stderr.
C10_MissingFileReconstructed ==
    (LoadReached /\ \E k \in 1..Len(Sources) : ~txt[Sources[k]].exists) =>
        /\ ~(pc = "failed" /\ err.kind = "missing_file" /\ err.detail = <<"txt">>)
        /\ \E k \in 1..Len(stderr) : stderr[k].kind = "reconstructed"

\* resolve_paths returned: the run is past path resolution and the whitelist.
Resolved ==
    /\ pc # "start"
    /\ err.kind \notin {"no_pyproject", "bad_group_override", "unknown_group"}

\* C11, as stated: with compilation enabled and a .in input file missing,
\* the compile phase is skipped with a warning: no temporary union file is
\* created, no resolver is run, and the run goes on to load the .txt files.
C11_MissingInputSkipsCompile ==
    (config.compile_in /\ ~inputs_exist /\ Resolved) =>
        /\ tmp_files = 0 /\ ~union_in
        /\ uv_calls = <<>>
        /\ pc \notin {"compiling", "compiled"}
        /\ err.kind \notin {"io_error", "resolver_missing", "resolver_failed"}
        /\ (pc # "resolved" => \E k \in 1..Len(stderr) : stderr[k].kind = "compile_skipped")

\* C13, as stated: a dry run without compilation whose dev .txt file holds
\* an '-r' line and an ordinary line, everything else being in order, does
\* not fail, and its output has the ordinary line and not the '-r' line in
\* the dev array.
C13_IncludeLineIgnored ==
    (~config.compile_in /\ config.dry_run /\ config.group = <<>>
     /\ txt[RUNTIME] = File(<<L_pin>>) /\ txt[DEV] = File(<<L_include, L_pin_b>>)
     /\ pre.kind = "toml" /\ pre.project = "table" /\ Resolved /\ pc # "resolved") =>
        /\ pc # "failed"
        /\ (pc = "done" =>
              /\ stdout = <<rendered>>
              /\ L_include \notin Range(rendered.groups.arrays[1][2].items)
              /\ Len(rendered.groups.arrays[1][2].items) = 1)

\* C14, as stated: once compile_inputs has returned or raised, whichever way,
\* the temporary union file it created is gone.
C14_TempFileRemoved ==
    pc # "compiling" => tmp_files = 0

\* The resolver calls of a compile phase that succeeds, in order.
ExpectedCalls ==
    [k \in 1..(Len(group_names) + 2) |->
        IF k = 1 THEN [phase |-> "lock", source |-> RUNTIME, constrained |-> FALSE]
        ELSE IF k = 2 THEN [phase |-> "runtime", source |-> RUNTIME, constrained |-> TRUE]
        ELSE [phase |-> "group", source |-> group_names[k - 2], constrained |-> TRUE]]

\* C15: the resolver calls made so far are the first calls of the sequence
\* union input without constraints into the lock file, runtime input under
\* the lock file, each group's input under the lock file in the order of the
\* groups, each made after the one before it succeeded; a compile phase that
\* succeeds has made exactly those 2 + (number of groups) calls.
C15_ResolverCallsInOrder ==
    /\ Len(uv_calls) <= Len(ExpectedCalls)
    /\ \A k \in 1..Len(uv_calls) :
          /\ uv_calls[k].call = ExpectedCalls[k]
          /\ k < Len(uv_calls) => uv_calls[k].exit_ok
    /\ (config.compile_in /\ (pc = "compiled" \/ LoadReached) =>
          /\ Len(uv_calls) = 2 + Len(group_names)
          /\ \A k \in 1..Len(uv_calls) : uv_calls[k].exit_ok
          /\ lock)

\* A finished run that compiled the lock file, the runtime list and two groups.
C15_Witness ==
    /\ config.compile_in /\ pc = "done"
    /\ group_names = <<DEV, OPS>>
    /\ Len(uv_calls) = 4

\* C16: when a resolver call exits non-zero the run has failed with the
\* resolver error, that call is the last one made, no requirement file has
\* been loaded, nothing was rendered or printed, and pyproject.toml and its
\* .bak are as before the run.
C16_ResolverFailureAborts ==
    (\E k \in 1..Len(uv_calls) : ~uv_calls[k].exit_ok) =>
        /\ pc = "failed" /\ err.kind = "resolver_failed"
        /\ \A k \in 1..Len(uv_calls) : uv_calls[k].exit_ok <=> k < Len(uv_calls)
        /\ deps = <<>> /\ original = NoText /\ rendered = NoText /\ stdout = <<>>
        /\ manifest = pre /\ bak = NoText /\ writes = 0

\* A run whose second resolver call, after the lock file was written, failed.
C16_Witness ==
    /\ pc = "failed" /\ err.kind = "resolver_failed"
    /\ Len(uv_calls) = 2 /\ lock
    /\ ~uv_calls[2].exit_ok

\* C17: when the resolver binary is not on the path, no step runs a
\* resolver or writes the lock file, a .txt file or pyproject.toml, and the
\* step of the compile phase that would call the resolver fails the run with
\* the missing-resolver error.
C17_MissingResolverFails ==
    [][~uv_on_path =>
          /\ uv_calls' = uv_calls /\ lock' = lock /\ txt' = txt
          /\ manifest' = manifest /\ bak' = bak
          /\ (pc = "compiling" => pc' = "failed" /\ err'.kind = "resolver_missing")]_vars

\* A run that created the union file, failed for want of the resolver, and
\* removed the union file.
C17_Witness ==
    /\ ~uv_on_path /\ config.compile_in
    /\ pc = "failed" /\ err.kind = "resolver_missing"
    /\ uv_calls = <<>> /\ ~lock /\ tmp_files = 0

\* C18: when pyproject.toml parses and has no root 'project' key, or a value
\* under it that is no table, a run that gets to rendering fails there with
\* the error of that case, and nothing is written or printed.
C18_ProjectTableRequired ==
    (pre.kind = "toml" /\ pre.project # "table" /\ deps # <<>> /\ pc # "loaded") =>
        /\ pc = "failed"
        /\ err.kind = (IF pre.project = "absent" THEN "missing_project_table"
                       ELSE "project_not_table")
        /\ rendered = NoText /\ stdout = <<>>
        /\ manifest = pre /\ bak = NoText /\ writes = 0

\* A run with --backup that failed on a 'project' key holding no table.
C18_Witness ==
    /\ pc = "failed" /\ err.kind = "project_not_table"
    /\ pre = NotTable
    /\ config.backup /\ ~config.dry_run
    /\ deps # <<>>

\* --------------------------------------------- the pin strategy on its own

Cat3(a, b, c) == a \o b \o c
\* lead name ws1 op ws2 version marker trail, one line.
Line(lead, name, ws1, op, ws2, version, marker, trail) ==
    Cat3(lead, name, ws1) \o Cat3(op, ws2, version) \o marker \o trail

Blanks == {<<>>, <<" ">>}
\* Names, without and with extras.
PinNames == {<<"a">>, <<"a", "[", "b", "]">>}
\* A name whose extras are not closed.
BrokenNames == {<<"a", "[", "b">>}
EqEq == <<"=", "=">>
\* The comparison operators of PEP 440 other than '=='.
RangeOps == {<<">", "=">>, <<"<", "=">>, <<"~", "=">>, <<"!", "=">>, <<"<">>, <<">">>,
             <<"=", "=", "=">>}
At == <<"@">>
PinVersions == {<<"1">>, <<"1", ".", "1">>}
Urls == {<<"a", "/", "a">>}
\* No marker, and a marker without and with whitespace around the ';'.
PinMarkers == {<<>>, <<";", "e">>, <<" ", ";", " ", "e">>}
\* Text after the version that is no marker.
Trash == {<<" ", "e">>}

ExactPinLines ==
    {Line(l, n, w1, EqEq, w2, v, m, t) :
        l \in Blanks, n \in PinNames, w1 \in Blanks, w2 \in Blanks,
        v \in PinVersions, m \in PinMarkers, t \in Blanks}
RangeLines ==
    {Line(l, n, w1, op, w2, v, m, t) :
        l \in Blanks, n \in PinNames, w1 \in Blanks, op \in RangeOps, w2 \in Blanks,
        v \in PinVersions, m \in PinMarkers, t \in Blanks}
UrlLines ==
    {Line(l, n, w1, At, w2, u, m, t) :
        l \in Blanks, n \in PinNames, w1 \in Blanks, w2 \in Blanks,
        u \in Urls, m \in {<<>>, <<" ", ";", " ", "e">>}, t \in Blanks}
UnpinnedLines ==
    {Line(l, n, <<>>, <<>>, <<>>, <<>>, m, t) :
        l \in Blanks, n \in PinNames, m \in PinMarkers, t \in Blanks}
OtherLines ==
    {Line(<<>>, n, <<>>, op, <<>>, v, m, <<>>) :
        n \in PinNames \cup BrokenNames, op \in {EqEq, <<"=">>}, v \in PinVersions \cup {<<>>},
        m \in PinMarkers \cup Trash}

\* The alphabet of the exhaustive part of the inputs.
ShortAlphabet == {"a", "[", "]", "=", ">", ";", " "}

PinInputs ==
    ExactPinLines \cup RangeLines \cup UrlLines \cup UnpinnedLines \cup OtherLines
    \cup SeqsUpTo(ShortAlphabet, MaxLen)

\* The lines that follow the first one in a list.
PinTail == {L_pin, L_name_b}

PinLists ==
    {<<>>} \cup {<<x>> \o q : x \in PinInputs, q \in SeqsUpTo(PinTail, MaxItems - 1)}

PinInit ==
    /\ items \in PinLists
    /\ strategy \in {"exact", "minimum"}
    /\ once = <<>>
    /\ twice = <<>>
    /\ pin_pc = "idle"
    /\ config = [pyproject_given |-> TRUE, dry_run |-> TRUE, group |-> <<>>,
                 compile_in |-> FALSE, uv_verbose |-> FALSE,
                 pin_strategy |-> strategy,
                 compact_toml |-> FALSE, fail_on_unpinned |-> FALSE,
                 validate_pep508 |-> FALSE, backup |-> FALSE,
                 strict_group_whitelist |-> FALSE]
    /\ uv_on_path = TRUE
    /\ inputs_exist = TRUE
    /\ manifest = Fresh /\ pre = Fresh /\ run = 1 /\ bak = NoText
    /\ txt = [k \in {RUNTIME, DEV, OPS} |-> Absent]
    /\ lock = FALSE /\ tmp_files = 0
    /\ IdleRun
    /\ IdleChunk

\* apply_pin_strategy(items, strategy).
ApplyOnce ==
    /\ pin_pc = "idle"
    /\ pin_pc' = "once"
    /\ once' = apply_pin_strategy(items, strategy)
    /\ UNCHANGED <<items, strategy, twice>>
    /\ UNCHANGED <<envVars, diskVars, runVars, chunkVars>>

\* apply_pin_strategy on its own result.
ApplyTwice ==
    /\ pin_pc = "once"
    /\ pin_pc' = "twice"
    /\ twice' = apply_pin_strategy(once, strategy)
    /\ UNCHANGED <<items, strategy, once>>
    /\ UNCHANGED <<envVars, diskVars, runVars, chunkVars>>

PinNext ==
    \/ ApplyOnce
    \/ ApplyTwice

PinSpec == PinInit /\ [][PinNext]_vars

\* ------------------------------------------- properties of the pin strategy

GreaterEq == <<">", "=">>

\* C5: to_minimum_pin turns a line name==version[;marker], the name with or
\* without extras, into name>=version[;marker]: name, extras, version and
\* the marker text as they were, whitespace around the operator and around
\* the line aside.
C5_MinimumPinKeepsParts ==
    (pin_pc # "idle" /\ strategy = "minimum" /\ items # <<>>) =>
        \A l \in Blanks, n \in PinNames, w1 \in Blanks, w2 \in Blanks,
           v \in PinVersions, m \in PinMarkers, t \in Blanks :
            items[1] = Line(l, n, w1, EqEq, w2, v, m, t) =>
                once[1] = Cat3(n, GreaterEq, v) \o m

\* 'a[b]==1.1 ; e' has been converted.
C5_Witness ==
    /\ pin_pc = "once" /\ strategy = "minimum"
    /\ items # <<>>
    /\ items[1] = Line(<<>>, <<"a", "[", "b", "]">>, <<>>, EqEq, <<>>, <<"1", ".", "1">>,
                       <<" ", ";", " ", "e">>, <<>>)
    /\ once[1] = <<"a", "[", "b", "]", ">", "=", "1", ".", "1", " ", ";", " ", "e">>

\* C6: converting the result of a conversion changes nothing, for a line
\* under to_minimum_pin and for a list under apply_pin_strategy with the
\* strategy minimum.
C6_Idempotent ==
    pin_pc = "twice" =>
        /\ twice = once
        /\ strategy = "minimum" =>
              \A k \in 1..Len(once) : to_minimum_pin(once[k]) = once[k]

\* A list of two exact pins has been converted twice.
C6_Witness ==
    /\ pin_pc = "twice" /\ strategy = "minimum"
    /\ Len(items) = 2
    /\ items[1] \in ExactPinLines /\ items[2] \in ExactPinLines
    /\ once[1] # items[1] /\ once[2] # items[2]
    /\ twice = once

\* C7, as stated: to_minimum_pin returns unchanged every line that is a
\* range constraint (>=, <=, ~=, !=, <, >, ===), a URL reference or a name
\* with no constraint.
C7_OtherLinesUnchanged ==
    (pin_pc # "idle" /\ strategy = "minimum" /\ items # <<>>
     /\ items[1] \in RangeLines \cup UrlLines \cup UnpinnedLines) =>
        once[1] = items[1]

\* ------------------------------------------- load_dependencies on its own

\* Lines that start with a prefix read_requirements_file looks for: the short
\* options followed by a space, the long ones followed by ' ' or '='.
PrefixedLines ==
    {p \o <<"a">> : p \in {q \in DIRECTIVE_PREFIXES : Len(q) = 3}}
    \cup {p \o sep \o <<"a">> :
            p \in {q \in DIRECTIVE_PREFIXES : Len(q) > 3} \cup INDEX_PREFIXES,
            sep \in {<<" ">>, <<"=">>}}
\* Other spellings pip reads in a requirements file: a short option with its
\* value attached, the short forms of --index-url and --find-links, --no-index.
L_include_attached == <<"-", "r", "a">>
L_index_short == <<"-", "i", " ", "a">>
L_find_links_short == <<"-", "f", " ", "a">>
L_no_index == <<"-", "-", "n", "o", "-", "i", "n", "d", "e", "x">>
OtherSpellings == {L_include_attached, L_index_short, L_find_links_short, L_no_index}
L_include_padded == <<" ", "-", "r", " ", "a", " ">>
L_comment_include == <<"#", " ", "-", "r", " ", "a">>

\* The lines that use a directive or an index option.
ForbiddenLines == PrefixedLines \cup OtherSpellings \cup {L_include_padded}

ReadLines ==
    ForbiddenLines \cup {L_comment, L_comment_include, L_blank, L_pin, L_name_b}

ReadFiles == {Absent} \cup {File(q) : q \in SeqsUpTo(ReadLines, MaxItems)}

\* load_dependencies about to run, without compilation, validation or checks.
LoadInit ==
    /\ config = [pyproject_given |-> TRUE, dry_run |-> TRUE, group |-> <<>>,
                 compile_in |-> FALSE, uv_verbose |-> FALSE,
                 pin_strategy |-> "exact",
                 compact_toml |-> FALSE, fail_on_unpinned |-> FALSE,
                 validate_pep508 |-> FALSE, backup |-> FALSE,
                 strict_group_whitelist |-> FALSE]
    /\ uv_on_path = TRUE /\ inputs_exist = TRUE
    /\ manifest = Fresh /\ pre = Fresh /\ run = 1 /\ bak = NoText
    /\ \E f \in ReadFiles :
          txt = [k \in {RUNTIME, DEV, OPS} |->
                    IF k = RUNTIME THEN f ELSE IF k = DEV THEN File(<<L_pin_b>>) ELSE Absent]
    /\ lock = FALSE /\ tmp_files = 0
    /\ pc = "resolved" /\ group_names = <<DEV>>
    /\ group_in = group_in_paths(DEFAULT_GROUP_IN)
    /\ group_txt = group_txt_paths(DEFAULT_GROUP_IN)
    /\ union_in = FALSE /\ phase = 0
    /\ deps = <<>> /\ original = NoText /\ rendered = NoText /\ err = NoError
    /\ stderr = <<>> /\ stdout = <<>> /\ uv_calls = <<>> /\ writes = 0
    /\ IdlePin
    /\ IdleChunk

LoadNext == Load

LoadSpec == LoadInit /\ [][LoadNext]_vars

\* C12, as stated: read_requirements_file fails with the directive or the
\* index-option error, and returns no list, on every file with a line that is
\* no comment and uses an include, constraint or editable directive or an
\* index option, however spelled; a file of blank lines, comments and
\* requirement lines is read.
C12_DirectivesRejected ==
    (pc # "resolved" /\ txt[RUNTIME].exists) =>
        IF \E k \in 1..Len(txt[RUNTIME].lines) : strip(txt[RUNTIME].lines[k]) \in ForbiddenLines
        THEN /\ pc = "failed"
             /\ err.kind \in {"unsupported_directive", "index_option"}
             /\ deps = <<>>
        ELSE pc = "loaded"

\* -------------------------------------- render_updated_pyproject on its own

DynamicValues == {"version", "dependencies", "readme"}
DynamicArrays ==
    {NoArray} \cup {Array(q, FALSE) : q \in SeqsUpTo(DynamicValues, MaxItems)}
ToolDynamics ==
    {[present |-> FALSE, keys |-> {}]}
    \cup {[present |-> TRUE, keys |-> K] : K \in SUBSET {"dependencies", "version"}}
\* Lines outside the dependency keys: text, blank, with a trailing space,
\* indented, and whitespace only.
RestLines == {<<"x">>, <<>>, <<"x", " ">>, <<" ", "x">>, <<" ">>}

Docs ==
    {[Fresh EXCEPT !.dynamic = d, !.tool_dynamic = t, !.dependencies = a] :
        d \in DynamicArrays, t \in ToolDynamics, a \in {NoArray, Array(<<L_pin>>, FALSE)}}
    \cup {[Fresh EXCEPT !.rest = r] : r \in SeqsUpTo(RestLines, MaxLen)}
    \cup {NotTable, Toml("absent")}

LoadedLists ==
    {<< <<RUNTIME, <<L_pin>> >>, <<DEV, <<L_pin_b>> >> >>,
     << <<RUNTIME, <<>> >>, <<DEV, <<L_pin_b, L_name_b>> >> >>}

\* render_updated_pyproject about to run, on what load_dependencies returned.
RenderInit ==
    /\ \E c \in BOOLEAN :
          config = [pyproject_given |-> TRUE, dry_run |-> TRUE, group |-> <<>>,
                    compile_in |-> FALSE, uv_verbose |-> FALSE,
                    pin_strategy |-> "exact",
                    compact_toml |-> c, fail_on_unpinned |-> FALSE,
                    validate_pep508 |-> FALSE, backup |-> FALSE,
                    strict_group_whitelist |-> FALSE]
    /\ uv_on_path = TRUE /\ inputs_exist = TRUE
    /\ manifest \in Docs /\ pre = manifest /\ run = 1 /\ bak = NoText
    /\ deps \in LoadedLists
    /\ txt = [k \in {RUNTIME, DEV, OPS} |->
                 IF k = OPS THEN Absent ELSE File(deps[IF k = RUNTIME THEN 1 ELSE 2][2])]
    /\ lock = FALSE /\ tmp_files = 0
    /\ pc = "loaded" /\ group_names = <<DEV>>
    /\ group_in = group_in_paths(DEFAULT_GROUP_IN)
    /\ group_txt = group_txt_paths(DEFAULT_GROUP_IN)
    /\ union_in = FALSE /\ phase = 0
    /\ original = NoText /\ rendered = NoText /\ err = NoError
    /\ stderr = <<>> /\ stdout = <<>> /\ uv_calls = <<>> /\ writes = 0
    /\ IdlePin
    /\ IdleChunk

RenderNext == Render

RenderSpec == RenderInit /\ [][RenderNext]_vars

NotDependencies(value) == value # "dependencies"

NotBlank(line) == line # <<>>
NoTrailingSpace(line) == line = <<>> \/ line[Len(line)] \notin WsChars
\* The lines of a text have no trailing whitespace and no blank line follows
\* a blank line.
Tidy(lines) ==
    /\ \A k \in 1..Len(lines) : NoTrailingSpace(lines[k])
    /\ \A k \in 1..(Len(lines) - 1) : ~(lines[k] = <<>> /\ lines[k + 1] = <<>>)
\* The lines that are not whitespace only, without their trailing whitespace.
Content(lines) ==
    SelectSeq([k \in 1..Len(lines) |->
                  Slice(lines[k], 1, SpanBack(lines[k], Len(lines[k]), WsChars))],
              NotBlank)

GroupedDocs ==
    {[Fresh EXCEPT !.groups = [present |-> TRUE, arrays |-> g]] :
        g \in {<< <<DEV, Array(<<L_pin_b>>, TRUE)>> >>,
               << <<OPS, Array(<<L_pin>>, TRUE)>> >>,
               << <<OPS, Array(<<L_pin>>, FALSE)>>, <<DEV, Array(<<>>, FALSE)>> >>}}

\* main about to run without --dry-run and without compilation, with and
\* without a --group value, on requirement files that are read.
SyncInit ==
    /\ \E c \in BOOLEAN, b \in BOOLEAN, s \in {"exact", "minimum"}, g \in {<<>>, <<G_ops>>} :
          config = [pyproject_given |-> TRUE, dry_run |-> FALSE, group |-> g,
                    compile_in |-> FALSE, uv_verbose |-> FALSE,
                    pin_strategy |-> s,
                    compact_toml |-> c, fail_on_unpinned |-> FALSE,
                    validate_pep508 |-> FALSE, backup |-> b,
                    strict_group_whitelist |-> FALSE]
    /\ uv_on_path = TRUE /\ inputs_exist = TRUE
    /\ manifest \in Docs \cup GroupedDocs \cup {Synced}
    /\ pre = manifest /\ run = 1 /\ bak = NoText
    /\ \E l \in LoadedLists :
          txt = [k \in {RUNTIME, DEV, OPS} |->
                    IF k = OPS THEN File(<<L_pin>>)
                    ELSE File(l[IF k = RUNTIME THEN 1 ELSE 2][2])]
    /\ lock = FALSE /\ tmp_files = 0
    /\ IdleRun
    /\ IdlePin
    /\ IdleChunk

\* main is run again with the same arguments, on the files the run before
\* left: a new process, whose state is that of a run about to start.
SyncAgain ==
    /\ pc = "done"
    /\ run = 1
    /\ run' = 2
    /\ pre' = manifest
    /\ pc' = "start"
    /\ group_names' = <<>>
    /\ group_in' = <<>>
    /\ group_txt' = <<>>
    /\ deps' = <<>>
    /\ original' = NoText
    /\ rendered' = NoText
    /\ stderr' = <<>>
    /\ stdout' = <<>>
    /\ writes' = 0
    /\ UNCHANGED <<union_in, phase, err, uv_calls>>
    /\ UNCHANGED <<config, uv_on_path, inputs_exist, diskVars, pinVars, chunkVars>>

SyncNext ==
    \/ ResolvePaths
    \/ Load
    \/ Render
    \/ Unchanged
    \/ Backup
    \/ Write
    \/ SyncAgain

SyncSpec == SyncInit /\ [][SyncNext]_vars

L_pin_no_marker == <<"a", "=", "=", "1", ";">>

CheckedLines ==
    {L_pin, L_pin_padded, L_pin_no_marker, L_arbitrary, L_name_b, L_invalid,
     L_comment, L_blank}
CheckedFiles == {File(q) : q \in SeqsUpTo(CheckedLines, MaxItems)}
CheckedDevFiles == {File(<<L_pin_b>>), File(<<L_pin_b, L_invalid>>), File(<<L_name_d>>)}

\* load_dependencies about to run without compilation, under every choice
\* of the validation, all-pinned and pin strategy options, on a manifest
\* that will be rewritten.
LinesInit ==
    /\ \E v \in BOOLEAN, f \in BOOLEAN, b \in BOOLEAN, s \in {"exact", "minimum"} :
          config = [pyproject_given |-> TRUE, dry_run |-> FALSE, group |-> <<>>,
                    compile_in |-> FALSE, uv_verbose |-> FALSE,
                    pin_strategy |-> s,
                    compact_toml |-> FALSE, fail_on_unpinned |-> f,
                    validate_pep508 |-> v, backup |-> b,
                    strict_group_whitelist |-> FALSE]
    /\ uv_on_path = TRUE /\ inputs_exist = TRUE
    /\ manifest = Fresh /\ pre = Fresh /\ run = 1 /\ bak = NoText
    /\ \E r \in CheckedFiles, d \in CheckedDevFiles :
          txt = [k \in {RUNTIME, DEV, OPS} |->
                    IF k = RUNTIME THEN r ELSE IF k = DEV THEN d ELSE Absent]
    /\ lock = FALSE /\ tmp_files = 0
    /\ pc = "resolved" /\ group_names = <<DEV>>
    /\ group_in = group_in_paths(DEFAULT_GROUP_IN)
    /\ group_txt = group_txt_paths(DEFAULT_GROUP_IN)
    /\ union_in = FALSE /\ phase = 0
    /\ deps = <<>> /\ original = NoText /\ rendered = NoText /\ err = NoError
    /\ stderr = <<>> /\ stdout = <<>> /\ uv_calls = <<>> /\ writes = 0
    /\ IdlePin
    /\ IdleChunk

LinesNext ==
    \/ Load
    \/ Render
    \/ Backup
    \/ Write

LinesSpec == LinesInit /\ [][LinesNext]_vars

\* The index of the first line of a list that does not parse, the sources
\* that hold such a line, and the first of them.
InvalidSources == {k \in 1..Len(Sources) : first_invalid(Lines(Sources[k]), 1) # 0}
FirstInvalidSource == CHOOSE k \in InvalidSources : \A j \in InvalidSources : k <= j

\* The arrays of the manifest on disk, as lists of <<source, items>>.
Written ==
    << <<RUNTIME, manifest.dependencies.items>> >>
    \o [k \in 1..Len(manifest.groups.arrays) |->
           <<manifest.groups.arrays[k][1], manifest.groups.arrays[k][2].items>>]

\* With validation, a line of a file that does not parse fails the run with
\* the invalid-requirement error of the first such line, runtime file
\* first, and the manifest is not written.
InvalidLineFails ==
    (config.validate_pep508 /\ LoadReached /\ Readable /\ InvalidSources # {}) =>
        /\ pc = "failed" /\ err.kind = "invalid_requirement"
        /\ err.source = Sources[FirstInvalidSource]
        /\ err.detail = <<Lines(Sources[FirstInvalidSource])
                             [first_invalid(Lines(Sources[FirstInvalidSource]), 1)]>>
        /\ deps = <<>>
        /\ manifest = pre /\ bak = NoText /\ writes = 0

\* C22, as stated: InvalidLineFails, and without validation and without the
\* all-pinned check no run fails on a line and the arrays written hold the
\* lines as read, the ones that do not parse included.
C22_InvalidLines ==
    /\ InvalidLineFails
    /\ (~config.validate_pep508 /\ ~config.fail_on_unpinned /\ LoadReached /\ Readable) =>
          /\ pc # "failed"
          /\ pc = "done" =>
                Written = [k \in 1..Len(Sources) |-> <<Sources[k], Lines(Sources[k])>>]

\* A line as the arrays hold it: as read under the strategy exact; under
\* minimum, as read unless _EXACT_PIN_PATTERN matches it, and then with its
\* operator turned into '>=', whether or not it parses.
AsWritten(line) ==
    IF config.pin_strategy = "minimum" /\ EXACT_PIN_PATTERN(line).ok
    THEN Cat3(EXACT_PIN_PATTERN(line).name, GreaterEq, EXACT_PIN_PATTERN(line).version)
         \o EXACT_PIN_PATTERN(line).marker
    ELSE line

\* C22, amended: InvalidLineFails, and without validation and without the
\* all-pinned check no run fails on a line and the arrays written hold the
\* lines of the files, as read under the strategy exact and as the textual
\* pin conversion leaves them under minimum.
C22_InvalidLinesUpToPinStrategy ==
    /\ InvalidLineFails
    /\ (~config.validate_pep508 /\ ~config.fail_on_unpinned /\ LoadReached /\ Readable) =>
          /\ pc # "failed"
          /\ pc = "done" =>
                Written = [k \in 1..Len(Sources) |->
                              <<Sources[k],
                                [j \in 1..Len(Lines(Sources[k])) |->
                                    AsWritten(Lines(Sources[k])[j])]>>]

\* A run without validation and without the all-pinned check, under the
\* strategy minimum, wrote the lines '@' and 'a==1;' of the runtime file,
\* neither of which parses, as '@' and 'a>=1;'.
C22_Witness ==
    /\ ~config.validate_pep508 /\ ~config.fail_on_unpinned /\ pc = "done"
    /\ InvalidSources = {1}
    /\ Lines(RUNTIME) = <<L_invalid, L_pin_no_marker>>
    /\ manifest.dependencies.items = <<L_invalid, <<"a", ">", "=", "1", ";">> >>

\* The lists of the files as read, and the error the checks of
\* load_dependencies raise when both are applied to them.
RawLists == [k \in 1..Len(Sources) |-> <<Sources[k], Lines(Sources[k])>>]
raw_unpinned(invalid) ==
    IF invalid.kind # "none" THEN invalid
    ELSE IF config.fail_on_unpinned THEN assert_each_pinned(RawLists, 1)
    ELSE NoError
RawError ==
    raw_unpinned(IF config.validate_pep508 THEN validate_each(RawLists, 1) ELSE NoError)

\* C23, as stated: the validation and the all-pinned check are both applied
\* to the lines as read from the files, before the pin strategy: a run that
\* has read its files fails in load_dependencies exactly when a check fails
\* on the lines as read, and with that error.
C23_ChecksBeforePinStrategy ==
    (LoadReached /\ Readable) => err = RawError

\* C25: under the pin strategy exact the dependencies array and the array of
\* each group, as written to pyproject.toml, hold the lines of the matching
\* .txt file that are neither blank nor comments, stripped, in the order of
\* the file, each as many times as the file has it.
C25_ExactCopiesLines ==
    (config.pin_strategy = "exact" /\ pc = "done") =>
        /\ Written = RawLists
        /\ deps = RawLists
        /\ manifest.groups.present

\* The file ' a==1 ' then 'a==1' was written as the array a==1, a==1.
C25_Witness ==
    /\ config.pin_strategy = "exact" /\ pc = "done"
    /\ txt[RUNTIME].lines = <<L_pin_padded, L_pin>>
    /\ manifest.dependencies.items = <<L_pin, L_pin>>
    /\ manifest.groups.arrays = << <<DEV, Array(<<L_pin_b>>, TRUE)>> >>

\* ------------------------------------------------ runs with the compile phase

\* A manifest that holds what the resolver can leave in both .txt files.
SyncedCompiled ==
    [Synced EXCEPT !.groups.arrays = << <<DEV, Array(<<L_pin>>, TRUE)>> >>]

\* main about to run with compilation on a manifest that can be rewritten,
\* with and without --dry-run, --uv-verbose and --backup.
CompileInit ==
    /\ config \in Configs
    /\ config.compile_in /\ config.pyproject_given
    /\ config.pin_strategy = "exact" /\ ~config.compact_toml
    /\ ~config.fail_on_unpinned /\ ~config.validate_pep508
    /\ (G_ops \notin Range(config.group) => ~config.strict_group_whitelist)
    /\ uv_on_path \in BOOLEAN
    /\ inputs_exist = TRUE
    /\ manifest \in {Fresh, Synced, SyncedCompiled}
    /\ pre = manifest /\ run = 1 /\ bak = NoText
    /\ \E r \in {Absent, File(<<L_pin>>)}, d \in {Absent, File(<<L_pin_b>>)} :
          txt = [k \in {RUNTIME, DEV, OPS} |->
                    IF k = RUNTIME THEN r ELSE IF k = DEV THEN d ELSE Absent]
    /\ lock = FALSE
    /\ tmp_files = 0
    /\ IdleRun
    /\ IdlePin
    /\ IdleChunk

CompileSpec == CompileInit /\ [][Next]_vars

\* C24, as stated: the standard output of a run holds nothing, or, at the
\* end of a dry run, the rendered manifest text and nothing else; the
\* warning about a group outside the whitelist is on the standard error.
C24_StdoutHoldsRenderedTextOnly ==
    /\ stdout # <<>> =>
          /\ config.dry_run /\ pc = "done"
          /\ stdout = <<rendered>> /\ rendered.kind = "toml"
    /\ (config.dry_run /\ pc = "done") => stdout = <<rendered>>
    /\ \A k \in 1..Len(stderr) : stderr[k].kind = "unknown_group"
    /\ (NamesUnknownGroup /\ ~config.strict_group_whitelist /\ pc # "start") =>
          Len(stderr) = 1

\* C29: in a dry run with compilation the compile phase runs whole: a dry
\* run that ends has made every resolver call, the lock file is written and
\* the .txt file of the runtime list and of every group holds what the
\* resolver left, while pyproject.toml and its .bak are as before the run;
\* and a dry run whose resolver fails part-way has written the files of the
\* calls before.
C29_DryRunStillCompiles ==
    (config.dry_run /\ config.compile_in) =>
        /\ manifest = pre /\ bak = NoText /\ writes = 0
        /\ pc = "done" =>
              /\ Len(uv_calls) = 2 + Len(group_names)
              /\ \A k \in 1..Len(uv_calls) : uv_calls[k].exit_ok
              /\ lock
              /\ \A k \in 1..Len(Sources) : txt[Sources[k]] \in ResolverOutputs
        /\ \A k \in 1..Len(uv_calls) :
              uv_calls[k].exit_ok =>
                  IF k = 1 THEN lock ELSE txt[Sources[k - 1]] \in ResolverOutputs

\* A dry run that ended after the resolver wrote the lock file, a runtime
\* .txt file that was there before with one line, and a dev .txt file that
\* was not there.
C29_Witness ==
    /\ config.dry_run /\ config.compile_in /\ pc = "done"
    /\ lock
    /\ txt[RUNTIME] = File(<<L_pin, L_pin_b>>)
    /\ txt[DEV].exists
    /\ deps[2][2] # <<L_pin_b>>
    /\ manifest = pre /\ manifest = Synced

\* --------------------------------------------------- resolve_paths on its own

\* --group values: a name (none, dev, ops), '=' and a path (none, relative,
\* holding a '=', absolute) with and without whitespace around each, and
\* every text of up to MaxLen characters among 'a', '=' and ' '.
OverridePaths == {<<>>, <<"p">>, <<"p", "=", "q">>, <<"/", "p">>}
OverrideValues ==
    {Cat3(l, n, w1) \o <<"=">> \o Cat3(w2, v, t) :
        l \in Blanks, n \in {<<>>, DEV, OPS}, w1 \in Blanks, w2 \in Blanks,
        v \in OverridePaths, t \in Blanks}
    \cup SeqsUpTo({"a", "=", " "}, MaxLen)
\* The values that follow the first one on a command line.
OverrideTail == {DEV \o <<"=", "q">>, OPS \o <<"=", "q">>, OPS}
OverrideLists ==
    {<<>>} \cup {<<x>> \o q : x \in OverrideValues, q \in SeqsUpTo(OverrideTail, MaxOverrides)}

\* main about to run, with any --group values.
ResolveInit ==
    /\ \E g \in OverrideLists, w \in BOOLEAN :
          config = [pyproject_given |-> TRUE, dry_run |-> FALSE, group |-> g,
                    compile_in |-> TRUE, uv_verbose |-> FALSE,
                    pin_strategy |-> "exact",
                    compact_toml |-> FALSE, fail_on_unpinned |-> FALSE,
                    validate_pep508 |-> FALSE, backup |-> TRUE,
                    strict_group_whitelist |-> w]
    /\ uv_on_path = TRUE /\ inputs_exist = TRUE
    /\ manifest = Fresh /\ pre = Fresh /\ run = 1 /\ bak = NoText
    /\ txt = [k \in {RUNTIME, DEV, OPS} |-> Absent]
    /\ lock = FALSE /\ tmp_files = 0
    /\ IdleRun
    /\ IdlePin
    /\ IdleChunk

ResolveNext == ResolvePaths

ResolveSpec == ResolveInit /\ [][ResolveNext]_vars

\* A --group value read as NAME=PATH: the text before its first '=' and the
\* text after it, without the whitespace around each.
FirstEq(v) == CHOOSE i \in 1..Len(v) : v[i] = "=" /\ \A j \in 1..(i - 1) : v[j] # "="
NameOf(v) == strip(SubSeq(v, 1, FirstEq(v) - 1))
PathOf(v) == strip(SubSeq(v, FirstEq(v) + 1, Len(v)))
Malformed(v) == "=" \notin Range(v) \/ NameOf(v) = <<>> \/ PathOf(v) = <<>>
MalformedValues == {k \in 1..Len(config.group) : Malformed(config.group[k])}
\* The last --group value that names the group of value k.
LastNaming(k) ==
    CHOOSE j \in k..Len(config.group) :
        /\ NameOf(config.group[j]) = NameOf(config.group[k])
        /\ \A i \in (j + 1)..Len(config.group) :
              NameOf(config.group[i]) # NameOf(config.group[k])

\* C26: when a --group value has no '=', or an empty name or path once
\* trimmed, the run fails with the group-override error of the first such
\* value, before anything is written, run or created; otherwise no such error
\* is raised and each named group has the trimmed text after the first '=' of
\* the last value that names it as its input path.
C26_GroupOverrides ==
    pc # "start" =>
        IF MalformedValues # {}
        THEN /\ pc = "failed" /\ err.kind = "bad_group_override"
             /\ \E k \in MalformedValues :
                   /\ \A j \in MalformedValues : k <= j
                   /\ err.detail = <<config.group[k]>>
             /\ group_in = <<>> /\ group_txt = <<>>
             /\ manifest = pre /\ bak = NoText /\ writes = 0
             /\ tmp_files = 0 /\ ~lock /\ uv_calls = <<>>
        ELSE /\ err.kind # "bad_group_override"
             /\ pc = "resolved" =>
                   \A k \in 1..Len(config.group) :
                       /\ DictIndex(group_in, NameOf(config.group[k]), 1) # 0
                       /\ DictGet(group_in, NameOf(config.group[k])).path
                              = PathOf(config.group[LastNaming(k)])

\* ' ops = p=q ' then 'ops=q': the group ops has the input path q.
C26_Witness ==
    /\ pc = "resolved"
    /\ Len(config.group) = 2
    /\ config.group[1] = <<" ">> \o OPS \o <<" ", "=", " ", "p", "=", "q", " ">>
    /\ config.group[2] = OPS \o <<"=", "q">>
    /\ group_in = << <<DEV, to_abs(<<"d">>)>>, <<OPS, to_abs(<<"q">>)>> >>

\* C28: once the paths are resolved the input map and the output map have
\* the same keys in the same order, dev and the names of the --group values;
\* dev has the path of the last override that names it, its default path
\* otherwise; and the output path of each group is requirements-<name>.txt
\* under the project root, whatever the path of an override.
C28_GroupMaps ==
    pc = "resolved" =>
        /\ DictKeys(group_in) = DictKeys(group_txt)
        /\ DictKeys(group_in) = group_names
        /\ Range(group_names) = {DEV} \cup {NameOf(config.group[k]) : k \in 1..Len(config.group)}
        /\ \A k \in 1..Len(group_names) : \A j \in 1..Len(group_names) :
              group_names[k] = group_names[j] => k = j
        /\ (\A k \in 1..Len(config.group) : NameOf(config.group[k]) # DEV) =>
              DictGet(group_in, DEV) = to_abs(DictGet(DEFAULT_GROUP_IN, DEV))
        /\ \A k \in 1..Len(group_txt) :
              /\ group_txt[k][2].under_root
              /\ group_txt[k][2].path =
                     <<"r", "e", "q", "u", "i", "r", "e", "m", "e", "n", "t", "s", "-">>
                     \o group_txt[k][1] \o <<".", "t", "x", "t">>

\* 'dev=/p' then 'ops=q': dev reads /p, outside the project root, and both
\* groups write requirements-<name>.txt under it.
C28_Witness ==
    /\ pc = "resolved"
    /\ config.group = <<DEV \o <<"=", "/", "p">>, OPS \o <<"=", "q">> >>
    /\ group_in = << <<DEV, [under_root |-> FALSE, path |-> <<"/", "p">>]>>,
                     <<OPS, [under_root |-> TRUE, path |-> <<"q">>]>> >>
    /\ DictKeys(group_txt) = <<DEV, OPS>>
    /\ group_txt[2][2].path =
           <<"r", "e", "q", "u", "i", "r", "e", "m", "e", "n", "t", "s", "-",
             "o", "p", "s", ".", "t", "x", "t">>

\* ------------------------------------------- the dependency-groups table

\* C27: the dependency-groups table of every rendered manifest, and of the
\* manifest on disk once the run is done, holds one array per configured
\* group (dev, then the groups of the --group values) and no other key, each
\* array holding the list loaded for its group: a group the manifest
\* declared before the run that is not configured is gone.
C27_GroupsTableReplaced ==
    pc \in {"rendered", "backed_up", "done"} =>
        /\ group_names = <<DEV>> \o [k \in 1..Len(config.group) |-> NameOf(config.group[k])]
        /\ rendered.groups.present
        /\ DictKeys(rendered.groups.arrays) = group_names
        /\ \A k \in 1..Len(group_names) :
              /\ deps[k + 1][1] = group_names[k]
              /\ rendered.groups.arrays[k][2].items = deps[k + 1][2]
        /\ pc = "done" => manifest.groups = rendered.groups

\* A manifest that declared the groups ops and dev was rewritten by a run
\* configured with dev only: its table holds dev alone.
C27_Witness ==
    /\ pc = "done" /\ writes = 1 /\ run = 1
    /\ config.group = <<>>
    /\ DictKeys(pre.groups.arrays) = <<OPS, DEV>>
    /\ DictKeys(manifest.groups.arrays) = <<DEV>>
    /\ manifest.groups.arrays[1][2].items = deps[2][2]

\* ----------------------------------------------------------- chunking a text

\* Texts of up to MaxText characters over a letter and the line boundaries.
Texts == SeqsUpTo({"a"} \cup LineBreaks, MaxText)

\* chunk_content(text, chunk_chars) about to be iterated.
ChunkInit ==
    /\ text \in Texts
    /\ chunk_chars \in 1..MaxChunk
    /\ chunk_lines = <<>> /\ line_no = 1 /\ buf = <<>> /\ cur = 0 /\ start_line = 1
    /\ chunks = <<>> /\ chunk_pc = "idle"
    /\ config = [pyproject_given |-> TRUE, dry_run |-> TRUE, group |-> <<>>,
                 compile_in |-> FALSE, uv_verbose |-> FALSE,
                 pin_strategy |-> "exact",
                 compact_toml |-> FALSE, fail_on_unpinned |-> FALSE,
                 validate_pep508 |-> FALSE, backup |-> FALSE,
                 strict_group_whitelist |-> FALSE]
    /\ uv_on_path = TRUE /\ inputs_exist = TRUE
    /\ manifest = Fresh /\ pre = Fresh /\ run = 1 /\ bak = NoText
    /\ txt = [k \in {RUNTIME, DEV, OPS} |-> Absent]
    /\ lock = FALSE /\ tmp_files = 0
    /\ IdleRun
    /\ IdlePin

\* The statements of chunk_content before its loop: an empty text yields
\* (0, 0, "") and ends the generator.
ChunkStart ==
    /\ chunk_pc = "idle"
    /\ IF text = <<>>
       THEN /\ chunks' = Append(chunks, Chunk(0, 0, <<>>))
            /\ chunk_pc' = "done"
            /\ UNCHANGED chunk_lines
       ELSE /\ chunk_lines' = splitlines(text)
            /\ chunk_pc' = "loop"
            /\ UNCHANGED chunks
    /\ UNCHANGED <<text, chunk_chars, line_no, buf, cur, start_line>>
    /\ UNCHANGED <<envVars, diskVars, runVars, pinVars>>

\* One turn of the loop of chunk_content, on line line_no.
ChunkLine ==
    /\ chunk_pc = "loop"
    /\ line_no <= Len(chunk_lines)
    /\ LET ln2 == Append(chunk_lines[line_no], "\n") IN
       IF must_yield(cur, ln2, chunk_chars, buf)
       THEN /\ chunks' = Append(chunks, Chunk(start_line, line_no - 1, join(buf)))
            /\ buf' = <<ln2>>
            /\ cur' = Len(ln2)
            /\ start_line' = line_no
       ELSE /\ buf' = Append(buf, ln2)
            /\ cur' = cur + Len(ln2)
            /\ UNCHANGED <<chunks, start_line>>
    /\ line_no' = line_no + 1
    /\ UNCHANGED <<text, chunk_chars, chunk_lines, chunk_pc>>
    /\ UNCHANGED <<envVars, diskVars, runVars, pinVars>>

\* The statements of chunk_content after its loop.
ChunkEnd ==
    /\ chunk_pc = "loop"
    /\ line_no > Len(chunk_lines)
    /\ chunks' = IF buf # <<>>
                 THEN Append(chunks, Chunk(start_line, start_line + Len(buf) - 1, join(buf)))
                 ELSE chunks
    /\ chunk_pc' = "done"
    /\ UNCHANGED <<text, chunk_chars, chunk_lines, line_no, buf, cur, start_line>>
    /\ UNCHANGED <<envVars, diskVars, runVars, pinVars>>

ChunkNext ==
    \/ ChunkStart
    \/ ChunkLine
    \/ ChunkEnd

ChunkSpec == ChunkInit /\ [][ChunkNext]_vars

\* The lines from first to last of a list, each followed by a newline, as
\* one text.
RECURSIVE Terminated(_, _, _)
Terminated(ls, first, last) ==
    IF first > last THEN <<>>
    ELSE Append(ls[first], "\n") \o Terminated(ls, first + 1, last)

====
